---- MODULE Spec2Model ----
(***************************************************************************)
(* Model of the midikit AppleMIDI session engine                           *)
(* (src/driver/applemidi/applemidi.c).                                     *)
(*                                                                         *)
(* Datagrams are byte sequences; the command encoder and decoder are       *)
(* modelled byte by byte.  `unsigned long' is taken to be 4 bytes wide     *)
(* (SizeofLong), the width for which the encoder produces the AppleMIDI    *)
(* wire layout.  The RTP session, the RTP-MIDI session and the message     *)
(* queue are not part of the sources at hand; they are modelled from the   *)
(* specification (the RTPSession, RTPMIDISession and MIDIMessageQueue      *)
(* operators).                                                             *)
(***************************************************************************)
EXTENDS Integers, Sequences, FiniteSets, TLC

(***************************************************************************)
(* Bounds of the model.                                                    *)
(***************************************************************************)
MaxSSRC == 3
MaxToken == 2
MaxTimestamp == 1
MaxPushed == 9
MaxSeq == 3

(***************************************************************************)
(* Program constants.                                                      *)
(***************************************************************************)
APPLEMIDI_PROTOCOL_SIGNATURE == 65535
APPLEMIDI_COMMAND_INVITATION == 18766
APPLEMIDI_COMMAND_INVITATION_REJECTED == 20047
APPLEMIDI_COMMAND_INVITATION_ACCEPTED == 20299
APPLEMIDI_COMMAND_ENDSESSION == 16985
APPLEMIDI_COMMAND_SYNCHRONIZATION == 17227
APPLEMIDI_COMMAND_RECEIVER_FEEDBACK == 21075
SizeofLong == 4
MsgLongs == 8
NameSize == 16
SelectNfds == 2
InviteVersion == 1
DefaultPort == 5004
BatchSize == 8

SSRCs == 1..MaxSSRC
Tokens == 1..MaxToken
Timestamps == 0..MaxTimestamp

(* The name the engine announces in its invitations: "MIDIKit". *)
MIDIKitName == <<77, 73, 68, 73, 75, 105, 116>>

(* Socket addresses of the remote host: its control port and its data port. *)
RemoteControlAddr == [host |-> "remote", port |-> 6000]

RemoteDataAddr == [host |-> "remote", port |-> 6001]

RemoteAddrs == {RemoteControlAddr, RemoteDataAddr}

(* The content of a sockaddr buffer that was never (or only partly) written. *)
IndeterminateAddr == [host |-> "indeterminate", port |-> 0]

(* Descriptor pairs <<control_socket, rtp_socket>> the engine may hold. *)
FdPairs == {<<0, 1>>, <<3, 4>>}

VARIABLES
  control_socket,  \* driver->control_socket
  rtp_socket,      \* driver->rtp_socket
  token,           \* driver->token
  session_ssrc,    \* the ssrc of driver->rtp_session
  timestamp,       \* the session clock as read by the step just taken
  peers,           \* the peer table of driver->rtp_session
  in_queue,        \* driver->in_queue
  out_queue,       \* driver->out_queue
  control_waiting, \* datagrams waiting on the control socket
  rtp_waiting,     \* datagrams waiting on the RTP socket
  sent,            \* datagrams handed to sendto() by the step just taken
  api,             \* the entry point the step just taken has run
  ret,             \* its return value
  arg,             \* its address argument
  route,           \* the branch the receive tick has taken
  crashed,         \* the process has been stopped by a wild pointer
  handled,         \* the datagram the step just taken took from a socket
  peers_before,    \* the peer table before the step just taken
  invited,         \* an invitation has been sent to the remote control port
  port,            \* driver->port
  control_bound,   \* the port the control socket is bound to
  rtp_bound,       \* the port the RTP socket is bound to
  journal,         \* the send journal of each peer: sequence numbers kept
  send_sequence,   \* the sequence number of the last RTP-MIDI packet sent
  pushed,          \* the number of messages pushed to the out-queue so far
  popped,          \* the messages the step just taken took from the out-queue
  handed,          \* the messages it handed to the RTP-MIDI session, in order
  journal_before,  \* the send journals before the step just taken
  format,          \* the message format descriptor the codec client holds
  message,         \* its struct MIDIMessageData
  buffer,          \* its byte buffer
  source,          \* the message data the buffer has been encoded from
  value,           \* the object a get has been asked to write to
  live,            \* the peers added to the RTP session and not removed since
  visited,         \* the peers the last iteration over the session has yielded
  closed,          \* the descriptors the last socket setter has passed to close()
  controller,      \* the struct MIDIController of the library's client
  driver           \* its struct MIDIDriver

(* The variables of the message codec's client and of the RTP peer test. *)
codec_vars == <<format, message, buffer, source, value, live, visited>>

(* The variables of the session engine. *)
engine_vars == <<control_socket, rtp_socket, token, session_ssrc, timestamp,
                 in_queue, out_queue, control_waiting, rtp_waiting,
                 sent, route, handled, peers_before, invited,
                 port, control_bound, rtp_bound, journal, send_sequence, pushed,
                 popped, handed, journal_before, closed>>

(* The variables of the client of the controller and of the plain driver. *)
midi_vars == <<controller, driver>>

vars == <<control_socket, rtp_socket, token, session_ssrc, timestamp, peers,
          in_queue, out_queue, control_waiting, rtp_waiting,
          sent, api, ret, arg, route, crashed, handled, peers_before, invited,
          port, control_bound, rtp_bound, journal, send_sequence, pushed, popped,
          handed, journal_before, format, message, buffer, source, value, live,
          visited, closed, controller, driver>>

(***************************************************************************)
(* Bytes and words.                                                        *)
(***************************************************************************)
Min(a, b) == IF a < b THEN a ELSE b

(* The four bytes htonl(x) leaves in memory. *)
htonl(x) ==
  <<(x \div 16777216) % 256, (x \div 65536) % 256, (x \div 256) % 256, x % 256>>

(* ntohl(msg[i]) for a byte buffer msg. *)
ntohl(msg, i) ==
  LET o == SizeofLong * i IN
  msg[o + 1] * 16777216 + msg[o + 2] * 65536 + msg[o + 3] * 256 + msg[o + 4]

(* ntohl(msg[i]) & 0xffff *)
ntohlLow16(msg, i) ==
  LET o == SizeofLong * i IN msg[o + 3] * 256 + msg[o + 4]

(* ntohs(buf[i]) for a buffer of shorts. *)
ntohs(buf, i) == buf[2 * i + 1] * 256 + buf[2 * i + 2]

(* htonl( ( APPLEMIDI_PROTOCOL_SIGNATURE << 16 ) | type ) as bytes in memory. *)
SignatureWord(type) ==
  <<APPLEMIDI_PROTOCOL_SIGNATURE \div 256, APPLEMIDI_PROTOCOL_SIGNATURE % 256,
    (type \div 256) % 256, type % 256>>

(* strlen(): the bytes of a char array before its first NUL. *)
RECURSIVE strlen(_)
strlen(s) == IF s = <<>> \/ Head(s) = 0 THEN 0 ELSE 1 + strlen(Tail(s))

Prefix(s, n) == SubSeq(s, 1, Min(n, Len(s)))

(***************************************************************************)
(* MIDI message data (struct MIDIMessageData): the four header bytes, the  *)
(* payload size and the payload pointer.  A pointer is null or denotes a   *)
(* block of memory with the bytes mem.                                     *)
(***************************************************************************)
(* A pointer: whether it is NULL, the bytes of the block it points to and  *)
(* who allocated the block: malloc() in the codec, or the client.          *)
NullPtr == [null |-> TRUE, mem |-> <<>>, from |-> "none"]

Fresh == [bytes |-> <<0, 0, 0, 0>>, size |-> 0, data |-> NullPtr]

(* An object handed to a get that has not been written to. *)
NoValue == [written |-> FALSE, v |-> 0, p |-> NullPtr]

(* No bytes have been encoded yet. *)
NoSource == [valid |-> FALSE, data |-> Fresh]

(* Status values, nibble and long-value macros and type sizes of midi.h. *)
MIDI_STATUS_NOTE_OFF == 8
MIDI_STATUS_NOTE_ON == 9
MIDI_STATUS_POLYPHONIC_KEY_PRESSURE == 10
MIDI_STATUS_CONTROL_CHANGE == 11
MIDI_STATUS_PROGRAM_CHANGE == 12
MIDI_STATUS_CHANNEL_PRESSURE == 13
MIDI_STATUS_PITCH_WHEEL_CHANGE == 14
MIDI_STATUS_SYSTEM_EXCLUSIVE == 240
MIDI_STATUS_TIME_CODE_QUARTER_FRAME == 241
MIDI_STATUS_SONG_POSITION_POINTER == 242
MIDI_STATUS_SONG_SELECT == 243
MIDI_STATUS_TUNE_REQUEST == 246
MIDI_STATUS_TIMING_CLOCK == 248
MIDI_STATUS_UNDEFINED2 == 249
MIDI_STATUS_UNDEFINED3 == 253
MIDI_STATUS_RESET == 255

MIDI_HIGH_NIBBLE(b) == (b \div 16) % 16

MIDI_LOW_NIBBLE(b) == b % 16

MIDI_NIBBLE_VALUE(h, l) == (h % 16) * 16 + (l % 16)

(* MIDI_LSB taking the whole low byte. *)
MIDI_LSB_LowByte(v) == v % 256

MIDI_LSB(v) == v % 128

MIDI_MSB(v) == (v \div 128) % 128

MIDI_LONG_VALUE(m, l) == (m % 128) * 128 + (l % 128)

Sizeof(type) ==
  IF type = "MIDILongValue" THEN 2
  ELSE IF type \in {"size_t", "void**"} THEN SizeofLong
  ELSE 1

(***************************************************************************)
(* Message format definitions.  A format is named by its descriptor;       *)
(* "NULL" is the null pointer.  FormatTest, FormatSize, FormatSet and      *)
(* FormatGet are the members test, size, set and get of the descriptors,   *)
(* each arm the static function the descriptor points to.                  *)
(***************************************************************************)
formats ==
  << "_note_off_on", "_polyphonic_key_pressure", "_control_change",
     "_program_change", "_channel_pressure", "_pitch_wheel_change",
     "_system_exclusive", "_time_code_quarter_frame", "_song_position_pointer",
     "_song_select", "_tune_request", "_real_time" >>

(* (byte & 0xf0) == (status << 4) *)
HighNibbleIs(byte, status) == byte - (byte % 16) = status * 16

(* _test_real_time without the two undefined status bytes taken out. *)
_test_real_time_NoGaps(byte) ==
  byte >= MIDI_STATUS_TIMING_CLOCK /\ byte <= MIDI_STATUS_RESET

_test_real_time(byte) ==
  IF byte >= MIDI_STATUS_TIMING_CLOCK /\ byte <= MIDI_STATUS_RESET
  THEN byte # MIDI_STATUS_UNDEFINED2 /\ byte # MIDI_STATUS_UNDEFINED3
  ELSE FALSE

FormatTest(fmt, byte) ==
  CASE fmt = "_note_off_on" ->
         \/ HighNibbleIs(byte, MIDI_STATUS_NOTE_OFF)
         \/ HighNibbleIs(byte, MIDI_STATUS_NOTE_ON)
    [] fmt = "_polyphonic_key_pressure" ->
         HighNibbleIs(byte, MIDI_STATUS_POLYPHONIC_KEY_PRESSURE)
    [] fmt = "_control_change" -> HighNibbleIs(byte, MIDI_STATUS_CONTROL_CHANGE)
    [] fmt = "_program_change" -> HighNibbleIs(byte, MIDI_STATUS_PROGRAM_CHANGE)
    [] fmt = "_channel_pressure" -> HighNibbleIs(byte, MIDI_STATUS_CHANNEL_PRESSURE)
    [] fmt = "_pitch_wheel_change" -> HighNibbleIs(byte, MIDI_STATUS_PITCH_WHEEL_CHANGE)
    [] fmt = "_system_exclusive" -> byte = MIDI_STATUS_SYSTEM_EXCLUSIVE
    [] fmt = "_time_code_quarter_frame" -> byte = MIDI_STATUS_TIME_CODE_QUARTER_FRAME
    [] fmt = "_song_position_pointer" -> byte = MIDI_STATUS_SONG_POSITION_POINTER
    [] fmt = "_song_select" -> byte = MIDI_STATUS_SONG_SELECT
    [] fmt = "_tune_request" -> byte = MIDI_STATUS_TUNE_REQUEST
    [] fmt = "_real_time" -> _test_real_time(byte)

(* _size_three_bytes, _size_two_bytes, _size_one_byte, _size_system_exclusive *)
FormatSize(fmt, d) ==
  CASE fmt \in {"_note_off_on", "_polyphonic_key_pressure", "_control_change",
                "_pitch_wheel_change", "_song_position_pointer"} -> 3
    [] fmt \in {"_program_change", "_channel_pressure", "_time_code_quarter_frame",
                "_song_select"} -> 2
    [] fmt \in {"_tune_request", "_real_time"} -> 1
    [] fmt = "_system_exclusive" -> IF d.bytes[3] = 0 THEN d.size + 2 ELSE d.size

(* Every setter and getter is a switch over the property; a case names the *)
(* macro it is written with, the property, the type the value is read as   *)
(* and the field: bytes[field], or data->size for field SizeField.         *)
(* _set_tune_request has no case at all.                                   *)
SizeField == Len(Fresh.bytes)

FormatSet(fmt) ==
  CASE fmt = "_note_off_on" ->  \* _set_note_off_on
         << [macro |-> "SET_H", flag |-> "MIDI_STATUS", type |-> "MIDIStatus", field |-> 0],
            [macro |-> "SET_L", flag |-> "MIDI_CHANNEL", type |-> "MIDIChannel", field |-> 0],
            [macro |-> "SET", flag |-> "MIDI_KEY", type |-> "MIDIKey", field |-> 1],
            [macro |-> "SET", flag |-> "MIDI_VELOCITY", type |-> "MIDIVelocity", field |-> 2] >>
    [] fmt = "_polyphonic_key_pressure" ->  \* _set_polyphonic_key_pressure
         << [macro |-> "SET_H", flag |-> "MIDI_STATUS", type |-> "MIDIStatus", field |-> 0],
            [macro |-> "SET_L", flag |-> "MIDI_CHANNEL", type |-> "MIDIChannel", field |-> 0],
            [macro |-> "SET", flag |-> "MIDI_KEY", type |-> "MIDIKey", field |-> 1],
            [macro |-> "SET", flag |-> "MIDI_PRESSURE", type |-> "MIDIPressure", field |-> 2] >>
    [] fmt = "_control_change" ->  \* _set_control_change
         << [macro |-> "SET_H", flag |-> "MIDI_STATUS", type |-> "MIDIStatus", field |-> 0],
            [macro |-> "SET_L", flag |-> "MIDI_CHANNEL", type |-> "MIDIChannel", field |-> 0],
            [macro |-> "SET", flag |-> "MIDI_CONTROL", type |-> "MIDIControl", field |-> 1],
            [macro |-> "SET", flag |-> "MIDI_VALUE", type |-> "MIDIValue", field |-> 2] >>
    [] fmt = "_program_change" ->  \* _set_program_change
         << [macro |-> "SET_H", flag |-> "MIDI_STATUS", type |-> "MIDIStatus", field |-> 0],
            [macro |-> "SET_L", flag |-> "MIDI_CHANNEL", type |-> "MIDIChannel", field |-> 0],
            [macro |-> "SET", flag |-> "MIDI_PROGRAM", type |-> "MIDIProgram", field |-> 1] >>
    [] fmt = "_channel_pressure" ->  \* _set_channel_pressure
         << [macro |-> "SET_H", flag |-> "MIDI_STATUS", type |-> "MIDIStatus", field |-> 0],
            [macro |-> "SET_L", flag |-> "MIDI_CHANNEL", type |-> "MIDIChannel", field |-> 0],
            [macro |-> "SET", flag |-> "MIDI_PRESSURE", type |-> "MIDIPressure", field |-> 1] >>
    [] fmt = "_pitch_wheel_change" ->  \* _set_pitch_wheel_change
         << [macro |-> "SET_H", flag |-> "MIDI_STATUS", type |-> "MIDIStatus", field |-> 0],
            [macro |-> "SET_L", flag |-> "MIDI_CHANNEL", type |-> "MIDIChannel", field |-> 0],
            [macro |-> "SET", flag |-> "MIDI_VALUE_LSB", type |-> "MIDIValue", field |-> 1],
            [macro |-> "SET", flag |-> "MIDI_VALUE_MSB", type |-> "MIDIValue", field |-> 2],
            [macro |-> "LONG", flag |-> "MIDI_VALUE", type |-> "MIDILongValue", field |-> 1] >>
    [] fmt = "_system_exclusive" ->  \* _set_system_exclusive
         << [macro |-> "SET", flag |-> "MIDI_STATUS", type |-> "MIDIStatus", field |-> 0],
            [macro |-> "SET", flag |-> "MIDI_MANUFACTURER_ID", type |-> "MIDIManufacturerId", field |-> 1],
            [macro |-> "SET", flag |-> "MIDI_SYSEX_SIZE", type |-> "size_t", field |-> 4],
            [macro |-> "SET", flag |-> "MIDI_SYSEX_FRAGMENT", type |-> "uint8_t", field |-> 2],
            [macro |-> "DATA", flag |-> "MIDI_SYSEX_DATA", type |-> "void**", field |-> 4] >>
    [] fmt = "_time_code_quarter_frame" ->  \* _set_time_code_quarter_frame
         << [macro |-> "SET", flag |-> "MIDI_STATUS", type |-> "MIDIStatus", field |-> 0],
            [macro |-> "SET_H", flag |-> "MIDI_TIME_CODE_TYPE", type |-> "MIDIValue", field |-> 1],
            [macro |-> "SET_L", flag |-> "MIDI_VALUE", type |-> "MIDIValue", field |-> 1] >>
    [] fmt = "_song_position_pointer" ->  \* _set_song_position_pointer
         << [macro |-> "SET", flag |-> "MIDI_STATUS", type |-> "MIDIStatus", field |-> 0],
            [macro |-> "SET", flag |-> "MIDI_VALUE_LSB", type |-> "MIDIValue", field |-> 1],
            [macro |-> "SET", flag |-> "MIDI_VALUE_MSB", type |-> "MIDIValue", field |-> 2],
            [macro |-> "LONG", flag |-> "MIDI_VALUE", type |-> "MIDILongValue", field |-> 1] >>
    [] fmt = "_song_select" ->  \* _set_song_select
         << [macro |-> "SET", flag |-> "MIDI_STATUS", type |-> "MIDIStatus", field |-> 0],
            [macro |-> "SET", flag |-> "MIDI_VALUE", type |-> "MIDIValue", field |-> 1] >>
    [] fmt = "_tune_request" ->  \* _set_tune_request
         << >>
    [] fmt = "_real_time" ->  \* _set_real_time
         << [macro |-> "SET", flag |-> "MIDI_STATUS", type |-> "MIDIStatus", field |-> 0] >>

FormatGet(fmt) ==
  CASE fmt = "_note_off_on" ->  \* _get_note_off_on
         << [macro |-> "GET_H", flag |-> "MIDI_STATUS", type |-> "MIDIStatus", field |-> 0],
            [macro |-> "GET_L", flag |-> "MIDI_CHANNEL", type |-> "MIDIChannel", field |-> 0],
            [macro |-> "GET", flag |-> "MIDI_KEY", type |-> "MIDIKey", field |-> 1],
            [macro |-> "GET", flag |-> "MIDI_VELOCITY", type |-> "MIDIVelocity", field |-> 2] >>
    [] fmt = "_polyphonic_key_pressure" ->  \* _get_polyphonic_key_pressure
         << [macro |-> "GET_H", flag |-> "MIDI_STATUS", type |-> "MIDIStatus", field |-> 0],
            [macro |-> "GET_L", flag |-> "MIDI_CHANNEL", type |-> "MIDIChannel", field |-> 0],
            [macro |-> "GET", flag |-> "MIDI_KEY", type |-> "MIDIKey", field |-> 1],
            [macro |-> "GET", flag |-> "MIDI_PRESSURE", type |-> "MIDIPressure", field |-> 2] >>
    [] fmt = "_control_change" ->  \* _get_control_change
         << [macro |-> "GET_H", flag |-> "MIDI_STATUS", type |-> "MIDIStatus", field |-> 0],
            [macro |-> "GET_L", flag |-> "MIDI_CHANNEL", type |-> "MIDIChannel", field |-> 0],
            [macro |-> "GET", flag |-> "MIDI_CONTROL", type |-> "MIDIControl", field |-> 1],
            [macro |-> "GET", flag |-> "MIDI_VALUE", type |-> "MIDIValue", field |-> 2] >>
    [] fmt = "_program_change" ->  \* _get_program_change
         << [macro |-> "GET_H", flag |-> "MIDI_STATUS", type |-> "MIDIStatus", field |-> 0],
            [macro |-> "GET_L", flag |-> "MIDI_CHANNEL", type |-> "MIDIChannel", field |-> 0],
            [macro |-> "GET", flag |-> "MIDI_PROGRAM", type |-> "MIDIProgram", field |-> 1] >>
    [] fmt = "_channel_pressure" ->  \* _get_channel_pressure
         << [macro |-> "GET_H", flag |-> "MIDI_STATUS", type |-> "MIDIStatus", field |-> 0],
            [macro |-> "GET_L", flag |-> "MIDI_CHANNEL", type |-> "MIDIChannel", field |-> 0],
            [macro |-> "GET", flag |-> "MIDI_PRESSURE", type |-> "MIDIPressure", field |-> 1] >>
    [] fmt = "_pitch_wheel_change" ->  \* _get_pitch_wheel_change
         << [macro |-> "GET_H", flag |-> "MIDI_STATUS", type |-> "MIDIStatus", field |-> 0],
            [macro |-> "GET_L", flag |-> "MIDI_CHANNEL", type |-> "MIDIChannel", field |-> 0],
            [macro |-> "GET", flag |-> "MIDI_VALUE_LSB", type |-> "MIDIValue", field |-> 1],
            [macro |-> "GET", flag |-> "MIDI_VALUE_MSB", type |-> "MIDIValue", field |-> 2],
            [macro |-> "LONG", flag |-> "MIDI_VALUE", type |-> "MIDILongValue", field |-> 1] >>
    [] fmt = "_system_exclusive" ->  \* _get_system_exclusive
         << [macro |-> "GET", flag |-> "MIDI_STATUS", type |-> "MIDIStatus", field |-> 0],
            [macro |-> "GET", flag |-> "MIDI_MANUFACTURER_ID", type |-> "MIDIManufacturerId", field |-> 1],
            [macro |-> "GET", flag |-> "MIDI_SYSEX_SIZE", type |-> "size_t", field |-> 4],
            [macro |-> "GET", flag |-> "MIDI_SYSEX_FRAGMENT", type |-> "uint8_t", field |-> 2],
            [macro |-> "DATA", flag |-> "MIDI_SYSEX_DATA", type |-> "void**", field |-> 4] >>
    [] fmt = "_time_code_quarter_frame" ->  \* _get_time_code_quarter_frame
         << [macro |-> "GET", flag |-> "MIDI_STATUS", type |-> "MIDIStatus", field |-> 0],
            [macro |-> "GET_H", flag |-> "MIDI_TIME_CODE_TYPE", type |-> "MIDIChannel", field |-> 1],
            [macro |-> "GET_L", flag |-> "MIDI_VALUE", type |-> "MIDIChannel", field |-> 1] >>
    [] fmt = "_song_position_pointer" ->  \* _get_song_position_pointer
         << [macro |-> "GET", flag |-> "MIDI_STATUS", type |-> "MIDIStatus", field |-> 0],
            [macro |-> "GET", flag |-> "MIDI_VALUE_LSB", type |-> "MIDIValue", field |-> 1],
            [macro |-> "GET", flag |-> "MIDI_VALUE_MSB", type |-> "MIDIValue", field |-> 2],
            [macro |-> "LONG", flag |-> "MIDI_VALUE", type |-> "MIDILongValue", field |-> 1] >>
    [] fmt = "_song_select" ->  \* _get_song_select
         << [macro |-> "GET", flag |-> "MIDI_STATUS", type |-> "MIDIStatus", field |-> 0],
            [macro |-> "GET", flag |-> "MIDI_VALUE", type |-> "MIDIChannel", field |-> 1] >>
    [] fmt = "_tune_request" ->  \* _get_tune_request_real_time
         << [macro |-> "GET", flag |-> "MIDI_STATUS", type |-> "MIDIStatus", field |-> 0] >>
    [] fmt = "_real_time" ->  \* _get_tune_request_real_time
         << [macro |-> "GET", flag |-> "MIDI_STATUS", type |-> "MIDIStatus", field |-> 0] >>

(***************************************************************************)
(* Encoding and decoding.  A buffer of size bytes is a sequence of that    *)
(* length; Unwritten marks a byte nothing has been stored in.  junk is the *)
(* value of the bytes read beyond the end of a block.                      *)
(***************************************************************************)
Unwritten == 0 - 1

JunkBytes == {0, 255}

WriteBytes(buf, at, bytes) ==
  [i \in 1..Len(buf) |-> IF i > at /\ i <= at + Len(bytes) THEN bytes[i - at] ELSE buf[i]]

(* The n bytes memcpy reads from the block ptr points to. *)
Block(ptr, n, junk) == [i \in 1..n |-> IF i <= Len(ptr.mem) THEN ptr.mem[i] ELSE junk]

(* _encode_one_byte, _encode_two_bytes, _encode_three_bytes for n = 1, 2, 3 *)
EncodeBytes(n, d, size, buf) ==
  IF size < n THEN [ret |-> 1, buffer |-> buf]
  ELSE [ret |-> 0, buffer |-> WriteBytes(buf, 0, SubSeq(d.bytes, 1, n))]

_encode_system_exclusive(d, size, buf, junk) ==
  LET payload == IF d.size > 0 /\ ~d.data.null THEN Block(d.data, d.size, junk) ELSE <<>>
  IN IF d.bytes[3] = 0 THEN
       IF size < d.size + 2 THEN [ret |-> 1, buffer |-> buf]
       ELSE [ret |-> 0,
             buffer |-> WriteBytes(WriteBytes(buf, 0, SubSeq(d.bytes, 1, 2)), 2, payload)]
     ELSE
       IF size < d.size THEN [ret |-> 1, buffer |-> buf]
       ELSE [ret |-> 0, buffer |-> WriteBytes(buf, 0, payload)]

(* The decoders yield the set of outcomes [ret, data, crashed]. *)
(* DecodeBytes that leaves the last byte of the record alone. *)
DecodeBytes_LastLeft(n, d, size, buf) ==
  IF size < n THEN {[ret |-> 1, data |-> d, crashed |-> FALSE]}
  ELSE {[ret |-> 0,
         data |-> [d EXCEPT !.bytes = [i \in 1..4 |-> IF i < n THEN buf[i] ELSE @[i]]],
         crashed |-> FALSE]}

(* _decode_one_byte, _decode_two_bytes, _decode_three_bytes for n = 1, 2, 3 *)
DecodeBytes(n, d, size, buf) ==
  IF size < n THEN {[ret |-> 1, data |-> d, crashed |-> FALSE]}
  ELSE {[ret |-> 0,
         data |-> [d EXCEPT !.bytes = [i \in 1..4 |-> IF i <= n THEN buf[i] ELSE @[i]]],
         crashed |-> FALSE]}

(* size - 2 is computed in size_t: below 2 it wraps around, malloc of that *)
(* size yields NULL and memcpy stores through it.  malloc may fail for any *)
(* size and its result is not looked at; malloc( 0 ) yields NULL or an     *)
(* empty block.                                                            *)
_decode_system_exclusive(d, size, buf, junk) ==
  LET b0 == IF size >= 1 THEN buf[1] ELSE junk
      b1 == IF size >= 2 THEN buf[2] ELSE junk
      head == [d EXCEPT !.bytes = <<b0, b1, 0, 1>>]
  IN IF size < 2 THEN {[ret |-> 0, data |-> head, crashed |-> TRUE]}
     ELSE {[ret |-> 0,
            data |-> [head EXCEPT !.data = [null |-> FALSE, mem |-> SubSeq(buf, 3, size),
                                            from |-> "malloc"],
                                  !.size = size - 2],
            crashed |-> FALSE]}
          \cup (IF size = 2
                THEN {[ret |-> 0, data |-> [head EXCEPT !.data = NullPtr, !.size = 0],
                       crashed |-> FALSE]}
                ELSE {[ret |-> 0, data |-> [head EXCEPT !.data = NullPtr],
                       crashed |-> TRUE]})

(***************************************************************************)
(* Getters and setters.                                                    *)
(***************************************************************************)
Field(d, f) == IF f = SizeField THEN d.size ELSE d.bytes[f + 1]

WithField(d, f, v) ==
  IF f = SizeField THEN [d EXCEPT !.size = v] ELSE [d EXCEPT !.bytes[f + 1] = v]

(* ( value & mask ) != value, for a mask of the low bits *)
OutsideMask(v, mask) == v % (mask + 1) # v

Refused(d) == [ret |-> 1, data |-> d]

Stored(d) == [ret |-> 0, data |-> d]

(* PROPERTY_CASE_SET without the range check: the value's low byte is stored. *)
PROPERTY_CASE_SET_NoRange(c, d, size, v) ==
  IF size # Sizeof(c.type) THEN Refused(d)
  ELSE Stored(WithField(d, c.field, v % 256))

(* PROPERTY_CASE_BASE, then the body of the macro the case is written with. *)
PROPERTY_CASE_SET(c, d, size, v) ==
  IF size # Sizeof(c.type) THEN Refused(d)
  ELSE IF OutsideMask(v, IF c.flag = "MIDI_STATUS" THEN 255 ELSE 127) THEN Refused(d)
  ELSE Stored(WithField(d, c.field, v))

PROPERTY_CASE_SET_H(c, d, size, v) ==
  IF size # Sizeof(c.type) THEN Refused(d)
  ELSE IF OutsideMask(v, IF c.flag = "MIDI_STATUS" THEN 15 ELSE 7) THEN Refused(d)
  ELSE Stored(WithField(d, c.field, MIDI_NIBBLE_VALUE(v, MIDI_LOW_NIBBLE(Field(d, c.field)))))

PROPERTY_CASE_SET_L(c, d, size, v) ==
  IF size # Sizeof(c.type) THEN Refused(d)
  ELSE IF OutsideMask(v, 15) THEN Refused(d)
  ELSE Stored(WithField(d, c.field, MIDI_NIBBLE_VALUE(MIDI_HIGH_NIBBLE(Field(d, c.field)), v)))

Cases(table, property) == {i \in 1..Len(table) : table[i].flag = property}

(* The switch of a setter.  Case MIDI_VALUE of _set_pitch_wheel_change and *)
(* _set_song_position_pointer ("LONG") stores the two halves of the value; *)
(* case MIDI_SYSEX_DATA of _set_system_exclusive ("DATA") frees the old    *)
(* block, if owned, and stores the caller's pointer.                       *)
SetWith(table, d, property, size, v, ptr) ==
  IF size = 0 THEN Refused(d)
  ELSE IF Cases(table, property) = {} THEN Refused(d)
  ELSE LET c == table[CHOOSE i \in Cases(table, property) : TRUE]
       IN CASE c.macro = "SET" -> PROPERTY_CASE_SET(c, d, size, v)
            [] c.macro = "SET_H" -> PROPERTY_CASE_SET_H(c, d, size, v)
            [] c.macro = "SET_L" -> PROPERTY_CASE_SET_L(c, d, size, v)
            [] c.macro = "LONG" ->
                 IF size # Sizeof(c.type) THEN Refused(d)
                 ELSE Stored([d EXCEPT !.bytes[2] = MIDI_LSB(v), !.bytes[3] = MIDI_MSB(v)])
            [] c.macro = "DATA" ->
                 IF size # Sizeof(c.type) THEN Refused(d)
                 ELSE Stored([d EXCEPT !.data = ptr])

Unread == [ret |-> 1, value |-> NoValue]

Read(v, ptr) == [ret |-> 0, value |-> [written |-> TRUE, v |-> v, p |-> ptr]]

(* The switch of a getter: PROPERTY_CASE_GET, _GET_H and _GET_L, the long  *)
(* value MIDI_LONG_VALUE( m[2], m[1] ) and the payload pointer.            *)
GetWith(table, d, property, size) ==
  IF size = 0 THEN Unread
  ELSE IF Cases(table, property) = {} THEN Unread
  ELSE LET c == table[CHOOSE i \in Cases(table, property) : TRUE]
       IN IF size # Sizeof(c.type) THEN Unread
          ELSE CASE c.macro = "GET" -> Read(Field(d, c.field), NullPtr)
                 [] c.macro = "GET_H" -> Read(MIDI_HIGH_NIBBLE(Field(d, c.field)), NullPtr)
                 [] c.macro = "GET_L" -> Read(MIDI_LOW_NIBBLE(Field(d, c.field)), NullPtr)
                 [] c.macro = "LONG" -> Read(MIDI_LONG_VALUE(d.bytes[3], d.bytes[2]), NullPtr)
                 [] c.macro = "DATA" -> Read(0, d.data)

(***************************************************************************)
(* The public format functions.                                            *)
(***************************************************************************)
(* The first format of the list whose test accepts the byte. *)
MIDIMessageFormatDetect(byte) ==
  LET hits == {i \in 1..Len(formats) : FormatTest(formats[i], byte)}
  IN IF hits = {} THEN "NULL"
     ELSE formats[CHOOSE i \in hits : \A j \in hits : i <= j]

(* byte is a uint8_t: status << 4 loses its high bits when stored in it. *)
MIDIMessageFormatForStatus(status) ==
  IF status >= 128 THEN
    IF status < 240 THEN "NULL" ELSE MIDIMessageFormatDetect(status)
  ELSE
    LET byte == (status * 16) % 256
    IN IF byte < 128 THEN "NULL" ELSE MIDIMessageFormatDetect(byte)

MIDIMessageFormatGetSize(fmt, d) ==
  IF fmt = "NULL" THEN [ret |-> 1, size |-> 0]
  ELSE [ret |-> 0, size |-> FormatSize(fmt, d)]

MIDIMessageFormatSet(fmt, d, property, size, v, ptr) ==
  IF fmt = "NULL" THEN Refused(d)
  ELSE SetWith(FormatSet(fmt), d, property, size, v, ptr)

MIDIMessageFormatGet(fmt, d, property, size) ==
  IF fmt = "NULL" THEN Unread
  ELSE GetWith(FormatGet(fmt), d, property, size)

(* The descriptors pair the encoder and the decoder of n bytes with the    *)
(* size function of the same n.                                            *)
MIDIMessageFormatEncode(fmt, d, size, buf, junk) ==
  IF fmt = "NULL" THEN [ret |-> 1, buffer |-> buf]
  ELSE IF fmt = "_system_exclusive" THEN _encode_system_exclusive(d, size, buf, junk)
  ELSE EncodeBytes(FormatSize(fmt, d), d, size, buf)

MIDIMessageFormatDecode(fmt, d, size, buf, junk) ==
  IF fmt = "NULL" THEN {[ret |-> 1, data |-> d, crashed |-> FALSE]}
  ELSE IF fmt = "_system_exclusive" THEN _decode_system_exclusive(d, size, buf, junk)
  ELSE DecodeBytes(FormatSize(fmt, d), d, size, buf)

(***************************************************************************)
(* The command codec.                                                      *)
(***************************************************************************)
SessionCommands == {APPLEMIDI_COMMAND_INVITATION, APPLEMIDI_COMMAND_INVITATION_ACCEPTED,
                    APPLEMIDI_COMMAND_INVITATION_REJECTED, APPLEMIDI_COMMAND_ENDSESSION}

CommandCodes == SessionCommands \cup {APPLEMIDI_COMMAND_SYNCHRONIZATION,
                                      APPLEMIDI_COMMAND_RECEIVER_FEEDBACK}

(* Values an uninitialised object may hold.  addrlen is what recvfrom()     *)
(* makes of the uninitialised command->size: the whole source address is    *)
(* stored, only a part of it, or the call fails with EINVAL after the       *)
(* datagram has been taken from the socket.  word fills uninitialised       *)
(* longs, name an uninitialised name array.                                 *)
JunkWords == {1, MaxSSRC}

Junk == [addrlen : {"full", "truncated", "einval"},
         word : JunkWords,
         name : {<<>>, <<74>>}]

(* _test_applemidi: 0 for an AppleMIDI packet, 1 for any other, -1 if the   *)
(* signature could not be read.  recv() is asked for 2 bytes.               *)
_test_applemidi(data) ==
  LET bytes == Min(2, Len(data)) IN
  IF bytes # 4 THEN -1
  ELSE IF ntohs(data, 0) = APPLEMIDI_PROTOCOL_SIGNATURE /\ ntohs(data, 1) \in CommandCodes
       THEN 0
       ELSE 1

(* The bytes _applemidi_send_command hands to sendto(), or <<>> with ret 1. *)
(* junklen is the value the uninitialised len happens to hold.             *)
_applemidi_send_command(command, junklen) ==
  IF command.type \in SessionCommands THEN
    LET fixed == SignatureWord(command.type) \o htonl(command.version)
                   \o htonl(command.token) \o htonl(command.ssrc)
        len == IF command.name # <<>> /\ Head(command.name) # 0
               THEN strlen(command.name) + SizeofLong * 4
               ELSE SizeofLong * 4
    IN [ret |-> 0, data |-> Prefix(fixed \o command.name, len)]
  ELSE IF command.type = APPLEMIDI_COMMAND_SYNCHRONIZATION THEN
    [ret |-> 0,
     data |-> SignatureWord(command.type) \o htonl(command.ssrc) \o htonl(command.count)
                \o htonl(command.timestamp1) \o htonl(command.timestamp2)
                \o htonl(command.timestamp3)]
  ELSE IF command.type = APPLEMIDI_COMMAND_RECEIVER_FEEDBACK THEN
    \* len is not set on this path: the datagram length is indeterminate
    [ret |-> 0,
     data |-> Prefix(SignatureWord(command.type) \o htonl(command.ssrc)
                       \o htonl(command.seqnum), junklen)]
  ELSE [ret |-> 1, data |-> <<>>]

(* The receive buffer msg[8] after recvfrom(): the datagram's bytes, then   *)
(* whatever the stack held.                                                 *)
MsgBuffer(data, junk) ==
  LET size == MsgLongs * SizeofLong
      got == Min(Len(data), size)
  IN [i \in 1..size |-> IF i <= got THEN data[i]
                        ELSE htonl(junk.word)[((i - 1) % SizeofLong) + 1]]

(* _applemidi_recv_command applied to the datagram d = [from, data].       *)
_applemidi_recv_command(d, junk) ==
  LET msg == MsgBuffer(d.data, junk)
      len == IF junk.addrlen = "einval" THEN -1
             ELSE Min(Len(d.data), MsgLongs * SizeofLong)
      addr == IF junk.addrlen = "full" THEN d.from ELSE IndeterminateAddr
      type == ntohlLow16(msg, 0)
  IN
  IF type \in SessionCommands THEN
    LET nlen == len - 4 * SizeofLong
        n == Min(nlen, NameSize - 1)
        chars == IF nlen > 0
                 THEN SubSeq(msg, 4 * SizeofLong + 1, 4 * SizeofLong + n)
                 ELSE junk.name
    IN [ret |-> 0,
        command |-> [type |-> type, addr |-> addr,
                     version |-> ntohl(msg, 1), token |-> ntohl(msg, 2),
                     ssrc |-> ntohl(msg, 3), name |-> Prefix(chars, strlen(chars))]]
  ELSE IF type = APPLEMIDI_COMMAND_SYNCHRONIZATION THEN
    [ret |-> 0,
     command |-> [type |-> type, addr |-> addr,
                  ssrc |-> ntohl(msg, 1), count |-> ntohl(msg, 2),
                  timestamp1 |-> ntohl(msg, 3), timestamp2 |-> ntohl(msg, 4),
                  timestamp3 |-> ntohl(msg, 5)]]
  ELSE IF type = APPLEMIDI_COMMAND_RECEIVER_FEEDBACK THEN
    [ret |-> 0,
     command |-> [type |-> type, addr |-> addr,
                  ssrc |-> ntohl(msg, 1), seqnum |-> ntohl(msg, 2)]]
  ELSE [ret |-> 1, command |-> [type |-> type, addr |-> addr]]

(***************************************************************************)
(* The RTP session's peer table.  A peer is [ssrc, addr, timestamp_diff].  *)
(***************************************************************************)
RTPPeerCreate(ssrc, addr) == [ssrc |-> ssrc, addr |-> addr, timestamp_diff |-> 0]

RTPSessionFindPeerBySSRC(table, ssrc) == {p \in table : p.ssrc = ssrc}

RTPSessionFindPeerByAddress(table, addr) == {p \in table : p.addr = addr}

(* RTPSessionAddPeer without the comparison with the session's own ssrc. *)
RTPSessionAddPeer_AnySSRC(table, ssrc, peer) ==
  IF RTPSessionFindPeerBySSRC(table, peer.ssrc) # {} THEN table ELSE table \cup {peer}

(* The session keeps its peers unique by ssrc and different from its own   *)
(* ssrc.                                                                   *)
RTPSessionAddPeer(table, ssrc, peer) ==
  IF peer.ssrc = ssrc \/ RTPSessionFindPeerBySSRC(table, peer.ssrc) # {}
  THEN table
  ELSE table \cup {peer}

(* RTPSessionRemovePeer that leaves the peer in the table. *)
RTPSessionRemovePeer_Keeps(table, peer) == table

RTPSessionRemovePeer(table, peer) == table \ {peer}

(* RTPSessionNextPeer( session, &p ): p is the null pointer {} or a peer    *)
(* {q}; the peers are walked by ascending ssrc, and the null pointer        *)
(* follows the last one.                                                    *)
RTPSessionNextPeer(table, p) ==
  LET after == {q \in table : \A c \in p : q.ssrc > c.ssrc}
  IN IF after = {} THEN {}
     ELSE {CHOOSE q \in after : \A r \in after : q.ssrc <= r.ssrc}

(* The peers a loop over RTPSessionNextPeer yields from p on until the null *)
(* pointer comes, in at most n calls.                                       *)
RECURSIVE NextPeers(_, _, _)
NextPeers(table, p, n) ==
  LET q == RTPSessionNextPeer(table, p)
  IN IF n = 0 \/ q = {} THEN <<>>
     ELSE <<CHOOSE r \in q : TRUE>> \o NextPeers(table, q, n - 1)

(* The send journals of the RTP-MIDI session, one per peer ssrc: the        *)
(* sequence numbers of the packets kept for recovery.                      *)
NoJournal == [s \in SSRCs |-> {}]

RTPMIDISessionTrunkateSendJournal(jrn, peer, seq) ==
  [jrn EXCEPT ![peer.ssrc] = {e \in @ : e > seq}]

(* What a call that is handed an uninitialised peer pointer can do to the  *)
(* table: nothing, or work on a peer the stale pointer happens to denote.  *)
WildPeerRemoved(table) == {table} \cup {table \ {p} : p \in table}

(***************************************************************************)
(* Clock synchronisation and the command handler.                          *)
(***************************************************************************)
Sending(command, junk) ==
  LET s == _applemidi_send_command(command, junk.word)
  IN [ret |-> s.ret, out |-> IF s.ret = 0 THEN <<[to |-> command.addr, data |-> s.data]>>
                             ELSE <<>>]

(* _applemidi_sync: ssrc and ts are the session's ssrc and timestamp.      *)
_applemidi_sync(command, ssrc, ts, junk) ==
  IF command.type # APPLEMIDI_COMMAND_SYNCHRONIZATION \/ command.ssrc = ssrc THEN
    Sending([command EXCEPT !.type = APPLEMIDI_COMMAND_SYNCHRONIZATION,
                            !.ssrc = ssrc, !.count = 1, !.timestamp1 = ts], junk)
  ELSE IF command.count = 3 THEN [ret |-> 0, out |-> <<>>]
  ELSE IF command.count = 2 THEN
    Sending([command EXCEPT !.ssrc = ssrc, !.count = 3, !.timestamp3 = ts], junk)
  ELSE IF command.count = 1 THEN
    Sending([command EXCEPT !.ssrc = ssrc, !.count = 2, !.timestamp2 = ts], junk)
  ELSE [ret |-> 1, out |-> <<>>]

(* case APPLEMIDI_COMMAND_INVITATION of _applemidi_respond *)
RespondInvitation(command, ssrc, junk) ==
  Sending([command EXCEPT !.type = APPLEMIDI_COMMAND_INVITATION_ACCEPTED,
                          !.ssrc = ssrc], junk)

(* case APPLEMIDI_COMMAND_INVITATION_ACCEPTED of _applemidi_respond *)
RespondAccepted(table, command, ssrc) ==
  RTPSessionAddPeer(table, ssrc, RTPPeerCreate(command.ssrc, command.addr))

(* RespondEndSession looking the peer up by the command's token. *)
RespondEndSession_ByToken(table, command) ==
  LET found == RTPSessionFindPeerBySSRC(table, command.token)
  IN IF found # {}
     THEN {[peers |-> RTPSessionRemovePeer(table, p), crashed |-> FALSE] : p \in found}
     ELSE {[peers |-> table, crashed |-> FALSE]}

(* case APPLEMIDI_COMMAND_ENDSESSION of _applemidi_respond; the peer        *)
(* pointer is not initialised when the lookup finds nothing.               *)
RespondEndSession(table, command) ==
  LET found == RTPSessionFindPeerBySSRC(table, command.ssrc)
  IN IF found # {}
     THEN {[peers |-> RTPSessionRemovePeer(table, p), crashed |-> FALSE] : p \in found}
     ELSE {[peers |-> t, crashed |-> FALSE] : t \in WildPeerRemoved(table)}
            \cup {[peers |-> table, crashed |-> TRUE]}

(* RespondFeedback truncating the journals of all peers. *)
RespondFeedback_AllPeers(table, jrn, command) ==
  {[journal |-> [s \in SSRCs |-> {e \in jrn[s] : e > command.seqnum}],
    crashed |-> FALSE]}

(* case APPLEMIDI_COMMAND_RECEIVER_FEEDBACK of _applemidi_respond; the      *)
(* peer pointer is not initialised when the lookup finds nothing.          *)
RespondFeedback(table, jrn, command) ==
  LET found == RTPSessionFindPeerBySSRC(table, command.ssrc)
  IN IF found # {}
     THEN {[journal |-> RTPMIDISessionTrunkateSendJournal(jrn, p, command.seqnum),
            crashed |-> FALSE] : p \in found}
     ELSE {[journal |-> jrn, crashed |-> FALSE], [journal |-> jrn, crashed |-> TRUE]}
            \cup {[journal |-> RTPMIDISessionTrunkateSendJournal(jrn, p, command.seqnum),
                   crashed |-> FALSE] : p \in table}

(* _applemidi_respond: the set of outcomes [peers, journal, out, ret,       *)
(* crashed, timestamp]; the session clock is read on the synchronisation   *)
(* path only.                                                              *)
_applemidi_respond(table, jrn, command, ssrc, ts, junk) ==
  CASE command.type = APPLEMIDI_COMMAND_INVITATION ->
         LET r == RespondInvitation(command, ssrc, junk)
         IN {[peers |-> table, journal |-> jrn, out |-> r.out, ret |-> r.ret,
              crashed |-> FALSE, timestamp |-> 0]}
    [] command.type = APPLEMIDI_COMMAND_INVITATION_ACCEPTED ->
         {[peers |-> RespondAccepted(table, command, ssrc), journal |-> jrn,
           out |-> <<>>, ret |-> 0, crashed |-> FALSE, timestamp |-> 0]}
    [] command.type = APPLEMIDI_COMMAND_INVITATION_REJECTED ->
         {[peers |-> table, journal |-> jrn, out |-> <<>>, ret |-> 0,
           crashed |-> FALSE, timestamp |-> 0]}
    [] command.type = APPLEMIDI_COMMAND_ENDSESSION ->
         {[peers |-> o.peers, journal |-> jrn, out |-> <<>>, ret |-> 0,
           crashed |-> o.crashed, timestamp |-> 0] : o \in RespondEndSession(table, command)}
    [] command.type = APPLEMIDI_COMMAND_SYNCHRONIZATION ->
         LET r == _applemidi_sync(command, ssrc, ts, junk)
         IN {[peers |-> table, journal |-> jrn, out |-> r.out, ret |-> r.ret,
              crashed |-> FALSE, timestamp |-> ts]}
    [] command.type = APPLEMIDI_COMMAND_RECEIVER_FEEDBACK ->
         {[peers |-> table, journal |-> o.journal, out |-> <<>>, ret |-> 0,
           crashed |-> o.crashed, timestamp |-> 0] :
            o \in RespondFeedback(table, jrn, command)}
    [] OTHER ->
         {[peers |-> table, journal |-> jrn, out |-> <<>>, ret |-> 0,
           crashed |-> FALSE, timestamp |-> 0]}

(***************************************************************************)
(* The datagrams the network may deliver.                                  *)
(***************************************************************************)
WireSession(type, tok, ssrc, name) ==
  SignatureWord(type) \o htonl(2) \o htonl(tok) \o htonl(ssrc) \o name

(* A CK of round count: t1 and t3 are readings of the initiator's clock,    *)
(* t2 one of the responder's.                                              *)
WireSync(ssrc, count) ==
  SignatureWord(APPLEMIDI_COMMAND_SYNCHRONIZATION) \o htonl(ssrc) \o htonl(count)
    \o htonl(1) \o htonl(IF count >= 1 THEN 5 ELSE 0) \o htonl(IF count >= 2 THEN 3 ELSE 0)

WireFeedback(ssrc, seqnum) ==
  SignatureWord(APPLEMIDI_COMMAND_RECEIVER_FEEDBACK) \o htonl(ssrc) \o htonl(seqnum)

(* An RTP packet: V=2, no padding, extension or csrc; payload type 97. *)
WireRTP(seqnum, ts, ssrc, payload) ==
  <<128, 97, (seqnum \div 256) % 256, seqnum % 256>> \o htonl(ts) \o htonl(ssrc) \o payload

(* Note Off, channel 3, key 60, velocity 64 *)
NoteOffPayload == <<131, 60, 64>>

PeerNames == {<<>>, <<80, 49>>}

(* The session's own ssrc (1) and the highest ssrc stand for the senders   *)
(* of the commands whose handling does not depend on the peer table.       *)
WireData ==
  {WireSession(APPLEMIDI_COMMAND_INVITATION, t, MaxSSRC, n) : t \in Tokens, n \in PeerNames}
  \cup {WireSession(APPLEMIDI_COMMAND_INVITATION_ACCEPTED, t, s, <<>>) :
          t \in Tokens, s \in SSRCs}
  \cup {WireSession(APPLEMIDI_COMMAND_INVITATION_REJECTED, t, MaxSSRC, <<>>) : t \in Tokens}
  \cup {WireSession(APPLEMIDI_COMMAND_ENDSESSION, MaxToken, s, <<>>) : s \in SSRCs}
  \cup {WireSync(s, c) : s \in {1, MaxSSRC}, c \in 0..3}
  \cup {WireFeedback(s, 0) : s \in SSRCs}
  \cup {WireRTP(5, 0, s, NoteOffPayload) : s \in SSRCs}
  \cup {WireRTP(APPLEMIDI_COMMAND_INVITATION, 0, MaxSSRC, <<>>)}
  \cup {<<>>, <<255, 255>>, SignatureWord(APPLEMIDI_COMMAND_INVITATION_ACCEPTED)}


NoArg == [host |-> "none", port |-> 0]

NoDatagram == [fd |-> -1, from |-> NoArg, data |-> <<>>]

(***************************************************************************)
(* The engine.                                                             *)
(***************************************************************************)
(* MIDIDriverAppleMIDICreate.  The token is read through the session       *)
(* pointer before the session exists: its value is indeterminate.  ssrc    *)
(* values are interchangeable; the session's own is taken to be 1.         *)
(* No controller and no plain driver exist before the client makes them. *)
NoController == [made |-> FALSE, spinning |-> FALSE]

NoDriver == [made |-> FALSE]

Created(table) ==
  /\ \E fds \in FdPairs : control_socket = fds[1] /\ rtp_socket = fds[2]
  /\ token \in Tokens
  /\ session_ssrc = 1
  /\ timestamp = 0
  /\ peers = table
  /\ in_queue = <<>>
  /\ out_queue = <<>>
  /\ control_waiting = <<>>
  /\ rtp_waiting = <<>>
  /\ sent = <<>>
  /\ api = "Create"
  /\ ret = 0
  /\ arg = NoArg
  /\ route = "none"
  /\ crashed = FALSE
  /\ handled = NoDatagram
  /\ peers_before = table
  /\ invited = FALSE
  /\ port = DefaultPort
  /\ control_bound = DefaultPort
  /\ rtp_bound = DefaultPort + 1
  /\ journal = NoJournal
  /\ send_sequence = 0
  /\ pushed = 0
  /\ popped = <<>>
  /\ handed = <<>>
  /\ journal_before = NoJournal
  /\ format = "NULL"
  /\ message = Fresh
  /\ buffer = <<>>
  /\ source = NoSource
  /\ value = NoValue
  /\ live = {}
  /\ visited = <<>>
  /\ closed = {}
  /\ controller = NoController
  /\ driver = NoDriver

Init == Created({})

(* What a step that is no send tick leaves of the host-side state. *)
NoSendTick ==
  /\ popped' = <<>> /\ handed' = <<>>
  /\ UNCHANGED <<port, control_bound, rtp_bound, send_sequence, pushed, closed>>
  /\ UNCHANGED codec_vars
  /\ UNCHANGED midi_vars

(* A datagram of the remote host reaches one of the two sockets.  The host *)
(* runs the receive tick whenever there is new data, so nothing else is    *)
(* waiting then.                                                           *)
Deliver(datagrams) ==
  /\ ~crashed
  /\ control_waiting = <<>> /\ rtp_waiting = <<>>
  /\ \E data \in datagrams :
       \/ /\ control_waiting' = <<[from |-> RemoteControlAddr, data |-> data]>>
          /\ rtp_waiting' = rtp_waiting
       \/ /\ rtp_waiting' = <<[from |-> RemoteControlAddr, data |-> data]>>
          /\ control_waiting' = control_waiting
  /\ sent' = <<>> /\ api' = "none" /\ ret' = 0 /\ arg' = NoArg /\ route' = "none"
  /\ timestamp' = 0 /\ handled' = NoDatagram /\ peers_before' = peers
  /\ journal_before' = journal /\ NoSendTick
  /\ UNCHANGED <<control_socket, rtp_socket, token, session_ssrc, peers,
                 in_queue, out_queue, crashed, invited, journal>>

Arrive == Deliver(WireData)

(* select( nfds, &fds, ... ): the descriptors of fds left set.  Only        *)
(* descriptors below nfds are examined; the others are cleared.            *)
select(nfds, fds, ready) == {fd \in fds : fd < nfds /\ fd \in ready}

Readable ==
  (IF control_waiting # <<>> THEN {control_socket} ELSE {})
    \cup (IF rtp_waiting # <<>> THEN {rtp_socket} ELSE {})

(* RTPMIDISessionReceive( session, 0, NULL, NULL, NULL ): the packet is     *)
(* taken from the RTP socket; no message list is supplied to hold its      *)
(* messages.                                                               *)
RTPMIDISessionReceive(waiting) == Tail(waiting)

(* MIDIDriverAppleMIDIReceive *)
MIDIDriverAppleMIDIReceive ==
  /\ ~crashed /\ route # "spinning"
  /\ \E junk \in Junk, ts \in Timestamps :
       LET fds == select(SelectNfds, {control_socket, rtp_socket}, Readable)
           fd == IF control_socket \in fds THEN control_socket ELSE rtp_socket
           d == IF fd = control_socket THEN Head(control_waiting) ELSE Head(rtp_waiting)
           taken == [fd |-> fd, from |-> d.from, data |-> d.data]
       IN
       /\ api' = "Receive" /\ arg' = NoArg /\ peers_before' = peers
       /\ journal_before' = journal /\ NoSendTick
       /\ UNCHANGED <<control_socket, rtp_socket, token, session_ssrc, in_queue,
                      out_queue, invited>>
       /\ IF fds = {} THEN
            /\ route' = "none" /\ ret' = 0 /\ sent' = <<>> /\ timestamp' = 0
            /\ handled' = NoDatagram
            /\ UNCHANGED <<peers, control_waiting, rtp_waiting, crashed, journal>>
          ELSE IF _test_applemidi(d.data) # 0 THEN
            /\ route' = "command" /\ handled' = taken
            /\ IF fd = control_socket
               THEN control_waiting' = Tail(control_waiting) /\ rtp_waiting' = rtp_waiting
               ELSE rtp_waiting' = Tail(rtp_waiting) /\ control_waiting' = control_waiting
            /\ LET r == _applemidi_recv_command(d, junk) IN
               IF r.ret = 0 THEN
                 \E o \in _applemidi_respond(peers, journal, r.command, session_ssrc,
                                              ts, junk) :
                   /\ peers' = o.peers
                   /\ journal' = o.journal
                   /\ sent' = [i \in 1..Len(o.out) |->
                                 [fd |-> fd, to |-> o.out[i].to, data |-> o.out[i].data]]
                   /\ ret' = o.ret
                   /\ crashed' = o.crashed
                   /\ timestamp' = o.timestamp
               ELSE
                 /\ ret' = 0 /\ sent' = <<>> /\ timestamp' = 0
                 /\ UNCHANGED <<peers, crashed, journal>>
          ELSE IF fd = rtp_socket THEN
            /\ route' = "rtpmidi" /\ ret' = 0 /\ sent' = <<>> /\ timestamp' = 0
            /\ handled' = taken
            /\ rtp_waiting' = RTPMIDISessionReceive(rtp_waiting)
            /\ UNCHANGED <<peers, control_waiting, crashed, journal>>
          ELSE
            /\ route' = "ignored" /\ ret' = 0 /\ sent' = <<>> /\ timestamp' = 0
            /\ handled' = NoDatagram
            /\ UNCHANGED <<peers, control_waiting, rtp_waiting, crashed, journal>>

(* _applemidi_invite *)
_applemidi_invite(addr, tok, ssrc, junklen) ==
  Sending([type |-> APPLEMIDI_COMMAND_INVITATION, addr |-> addr,
           version |-> InviteVersion, token |-> tok, ssrc |-> ssrc,
           name |-> MIDIKitName], [word |-> junklen])

(* MIDIDriverAppleMIDIAddPeer *)
MIDIDriverAppleMIDIAddPeer ==
  /\ ~crashed
  /\ \E addr \in RemoteAddrs, junklen \in JunkWords :
       LET r == _applemidi_invite(addr, token, session_ssrc, junklen) IN
       /\ sent' = [i \in 1..Len(r.out) |->
                     [fd |-> control_socket, to |-> r.out[i].to, data |-> r.out[i].data]]
       /\ ret' = r.ret
       /\ arg' = addr
       /\ invited' = (invited \/ addr = RemoteControlAddr)
  /\ api' = "AddPeer" /\ route' = "none" /\ timestamp' = 0
  /\ handled' = NoDatagram /\ peers_before' = peers
  /\ journal_before' = journal /\ NoSendTick
  /\ UNCHANGED <<control_socket, rtp_socket, token, session_ssrc, peers, journal,
                 in_queue, out_queue, control_waiting, rtp_waiting, crashed>>

(* MIDIDriverAppleMIDIRemovePeer *)
MIDIDriverAppleMIDIRemovePeer ==
  /\ ~crashed
  /\ \E addr \in RemoteAddrs :
       LET found == RTPSessionFindPeerByAddress(peers, addr) IN
       /\ arg' = addr
       /\ IF found = {}
          THEN ret' = 1 /\ peers' = peers
          ELSE \E p \in found : peers' = RTPSessionRemovePeer(peers, p) /\ ret' = 0
  /\ sent' = <<>>
  /\ api' = "RemovePeer" /\ route' = "none" /\ timestamp' = 0
  /\ handled' = NoDatagram /\ peers_before' = peers
  /\ journal_before' = journal /\ NoSendTick
  /\ UNCHANGED <<control_socket, rtp_socket, token, session_ssrc, journal,
                 in_queue, out_queue, control_waiting, rtp_waiting, crashed, invited>>

Next ==
  \/ Arrive
  \/ MIDIDriverAppleMIDIReceive
  \/ MIDIDriverAppleMIDIAddPeer
  \/ MIDIDriverAppleMIDIRemovePeer

Spec == Init /\ [][Next]_vars

(***************************************************************************)
(* Clock synchronisation started by the engine.                            *)
(***************************************************************************)
(* _applemidi_start_sync: the command is a local object of which           *)
(* _applemidi_init_addr_with_peer writes addr and size only.  memcpy reads *)
(* the address from &addr, the place of the pointer, not from the peer's   *)
(* sockaddr: what it stores is not the peer's address.  type and the sync  *)
(* fields are what the stack held, the code of a CK included.              *)
_applemidi_start_sync(peer, ssrc, ts, junk) ==
  {_applemidi_sync([type |-> type, addr |-> IndeterminateAddr, ssrc |-> junk.word,
                    count |-> junk.word, timestamp1 |-> junk.word,
                    timestamp2 |-> junk.word, timestamp3 |-> junk.word],
                   ssrc, ts, junk) :
     type \in {junk.word, APPLEMIDI_COMMAND_SYNCHRONIZATION}}

(* The engine starts a synchronisation with one of its peers on the        *)
(* control socket.                                                         *)
StartSync ==
  /\ ~crashed
  /\ \E peer \in peers, junk \in Junk, ts \in Timestamps :
       \E r \in _applemidi_start_sync(peer, session_ssrc, ts, junk) :
         /\ sent' = [i \in 1..Len(r.out) |->
                       [fd |-> control_socket, to |-> r.out[i].to, data |-> r.out[i].data]]
         /\ ret' = r.ret
         /\ arg' = peer.addr
         /\ timestamp' = ts
  /\ api' = "StartSync" /\ route' = "none"
  /\ handled' = NoDatagram /\ peers_before' = peers
  /\ journal_before' = journal /\ NoSendTick
  /\ UNCHANGED <<control_socket, rtp_socket, token, session_ssrc, peers, journal,
                 in_queue, out_queue, control_waiting, rtp_waiting, crashed, invited>>

NextSync ==
  \/ Arrive
  \/ MIDIDriverAppleMIDIReceive
  \/ StartSync

SpecSync == Init /\ [][NextSync]_vars

(***************************************************************************)
(* The host side of the engine: the out-queue, the send tick, the idle     *)
(* tick and the port setting, for a session with two connected peers.      *)
(***************************************************************************)
(* The number of messages the RTP-MIDI session accepts in one call. *)
Capacities == {0, 1, 2, BatchSize}

(* RTPMIDISessionSend( session, size, messages, &length, NULL ): the number *)
(* of messages of the list that went into the packet.                      *)
RTPMIDISessionSend(capacity, size) == Min(capacity, size)

(* The while loop of MIDIDriverAppleMIDISend: i messages are still to be   *)
(* sent, the last call has taken length of them.  Yields the messages the  *)
(* further calls take, in order, and the number of those calls.  A call    *)
(* that takes nothing leaves i and length as they are for the next turn of *)
(* the loop, and so does every call after it: the loop spins.              *)
RECURSIVE SendRemaining(_, _, _, _)
SendRemaining(msg_list, i, length, capacity) ==
  IF length < i
  THEN LET rest == i - length
           taken == RTPMIDISessionSend(capacity, rest)
           more == SendRemaining(msg_list, rest, taken, capacity)
       IN IF taken = 0 THEN [handed |-> <<>>, calls |-> 0, spins |-> TRUE]
          ELSE [handed |-> SubSeq(msg_list, length + 1, length + taken) \o more.handed,
                calls |-> 1 + more.calls, spins |-> more.spins]
  ELSE [handed |-> <<>>, calls |-> 0, spins |-> FALSE]

(* Every packet sent is kept in the journal of each peer. *)
JournalAppend(jrn, table, first, last) ==
  [s \in SSRCs |-> IF s \in {p.ssrc : p \in table} THEN jrn[s] \cup (first..last)
                   ELSE jrn[s]]

(* What a step other than the receive tick leaves of the session state. *)
NoReceiveTick ==
  /\ sent' = <<>> /\ arg' = NoArg /\ timestamp' = 0 /\ handled' = NoDatagram
  /\ peers_before' = peers /\ journal_before' = journal
  /\ UNCHANGED <<control_socket, rtp_socket, token, session_ssrc, peers, in_queue,
                 control_waiting, rtp_waiting, crashed, invited, closed>>
  /\ UNCHANGED codec_vars
  /\ UNCHANGED midi_vars

(* MIDIDriverAppleMIDISendMessage; messages are numbered as they are pushed. *)
MIDIDriverAppleMIDISendMessage ==
  /\ ~crashed /\ route # "spinning"
  /\ pushed < MaxPushed
  /\ out_queue' = Append(out_queue, pushed + 1)
  /\ pushed' = pushed + 1
  /\ api' = "SendMessage" /\ ret' = 0 /\ route' = "none"
  /\ popped' = <<>> /\ handed' = <<>>
  /\ NoReceiveTick
  /\ UNCHANGED <<port, control_bound, rtp_bound, journal, send_sequence>>

(* MIDIDriverAppleMIDISend.  Both sockets can accept data throughout.  A   *)
(* call whose loop spins does not return: route "spinning".  A call of the *)
(* RTP-MIDI session that takes no message sends no packet.                 *)
MIDIDriverAppleMIDISend ==
  /\ ~crashed /\ route # "spinning"
  /\ api' = "Send" /\ ret' = 0
  /\ NoReceiveTick
  /\ UNCHANGED <<port, control_bound, rtp_bound, pushed>>
  /\ LET length == Len(out_queue)
         fds == select(SelectNfds, {control_socket, rtp_socket},
                       {control_socket, rtp_socket})
     IN
     IF length = 0 THEN
       /\ route' = "empty" /\ popped' = <<>> /\ handed' = <<>>
       /\ UNCHANGED <<out_queue, journal, send_sequence>>
     ELSE IF fds = {} THEN
       /\ route' = "unwritable" /\ popped' = <<>> /\ handed' = <<>>
       /\ UNCHANGED <<out_queue, journal, send_sequence>>
     ELSE
       \E capacity \in Capacities :
         LET i == Min(BatchSize, length)
             msg_list == SubSeq(out_queue, 1, i)
             first == RTPMIDISessionSend(capacity, i)
             more == SendRemaining(msg_list, i, first, capacity)
             calls == IF first = 0 THEN 0 ELSE 1 + more.calls
         IN
         /\ send_sequence + calls <= MaxSeq
         /\ route' = IF more.spins THEN "spinning" ELSE "sent"
         /\ out_queue' = SubSeq(out_queue, i + 1, length)
         /\ popped' = msg_list
         /\ handed' = SubSeq(msg_list, 1, first) \o more.handed
         /\ send_sequence' = send_sequence + calls
         /\ journal' = JournalAppend(journal, peers, send_sequence + 1,
                                     send_sequence + calls)

(* MIDIDriverAppleMIDIIdle *)
MIDIDriverAppleMIDIIdle ==
  /\ ~crashed
  /\ api' = "Idle" /\ ret' = 1 /\ route' = "none"
  /\ NoReceiveTick /\ NoSendTick
  /\ UNCHANGED <<out_queue, journal>>

(* The ports the host may ask for. *)
Ports == {DefaultPort, DefaultPort + 2}

(* MIDIDriverAppleMIDISetPort *)
MIDIDriverAppleMIDISetPort ==
  /\ ~crashed
  /\ \E p \in Ports :
       IF p = port THEN port' = port /\ ret' = 0
       ELSE port' = p /\ ret' = 0
  /\ api' = "SetPort" /\ route' = "none"
  /\ popped' = <<>> /\ handed' = <<>>
  /\ NoReceiveTick
  /\ UNCHANGED <<control_bound, rtp_bound, send_sequence, pushed, out_queue, journal>>

(* MIDIDriverAppleMIDIGetPort: the value stored through the port pointer. *)
MIDIDriverAppleMIDIGetPort == port

(* _applemidi_disconnect: both blocks test fd against the control socket,   *)
(* the second one after the first may have cleared it.  ok tells whether    *)
(* close() succeeds.                                                        *)
_applemidi_disconnect(control, rtp, fd, ok) ==
  LET first == (fd = control \/ fd = 0) /\ control > 0
      cleared == IF first /\ ok THEN 0 ELSE control
      second == (fd = cleared \/ fd = 0) /\ rtp > 0
      tried == IF first THEN {control} ELSE {}
  IN IF first /\ ~ok
     THEN [ret |-> 1, control_socket |-> control, rtp_socket |-> rtp, closed |-> tried]
     ELSE IF second /\ ~ok
     THEN [ret |-> 1, control_socket |-> cleared, rtp_socket |-> rtp,
           closed |-> tried \cup {rtp}]
     ELSE [ret |-> 0, control_socket |-> cleared,
           rtp_socket |-> IF second THEN 0 ELSE rtp,
           closed |-> IF second THEN tried \cup {rtp} ELSE tried]

(* The descriptors the host opens itself and hands to the driver. *)
HostSockets == {5, 6}

(* What a socket setter leaves alone. *)
SetterStep ==
  /\ ~crashed
  /\ route' = "none"
  /\ sent' = <<>> /\ timestamp' = 0 /\ handled' = NoDatagram
  /\ peers_before' = peers /\ journal_before' = journal
  /\ popped' = <<>> /\ handed' = <<>>
  /\ UNCHANGED <<token, session_ssrc, peers, in_queue, out_queue, control_waiting,
                 rtp_waiting, crashed, invited, port, control_bound, rtp_bound,
                 journal, send_sequence, pushed>>
  /\ UNCHANGED codec_vars
  /\ UNCHANGED midi_vars

(* MIDIDriverAppleMIDISetRTPSocket; MIDIDriverAppleMIDIGetRTPSocket stores   *)
(* driver->rtp_socket through its pointer.                                  *)
MIDIDriverAppleMIDISetRTPSocket ==
  /\ SetterStep
  /\ \E socket \in HostSockets \ {control_socket}, ok \in BOOLEAN :
       /\ arg' = socket
       /\ IF socket = rtp_socket
          THEN ret' = 0 /\ closed' = {} /\ UNCHANGED <<control_socket, rtp_socket>>
          ELSE LET r == _applemidi_disconnect(control_socket, rtp_socket, rtp_socket, ok)
               IN /\ ret' = r.ret /\ closed' = r.closed
                  /\ control_socket' = r.control_socket
                  /\ rtp_socket' = IF r.ret = 0 THEN socket ELSE r.rtp_socket
  /\ api' = "SetRTPSocket"

(* MIDIDriverAppleMIDISetControlSocket; MIDIDriverAppleMIDIGetControlSocket *)
(* stores driver->control_socket through its pointer.                       *)
MIDIDriverAppleMIDISetControlSocket ==
  /\ SetterStep
  /\ \E socket \in HostSockets \ {rtp_socket}, ok \in BOOLEAN :
       /\ arg' = socket
       /\ IF socket = control_socket
          THEN ret' = 0 /\ closed' = {} /\ UNCHANGED <<control_socket, rtp_socket>>
          ELSE LET r == _applemidi_disconnect(control_socket, rtp_socket, control_socket, ok)
               IN /\ ret' = r.ret /\ closed' = r.closed
                  /\ rtp_socket' = r.rtp_socket
                  /\ control_socket' = IF r.ret = 0 THEN socket ELSE r.control_socket
  /\ api' = "SetControlSocket"

(* Two peers whose OK has been handled. *)
ConnectedPeers == {RTPPeerCreate(s, RemoteControlAddr) : s \in {2, MaxSSRC}}

(* Receiver feedback of the peers and of an unknown sender. *)
FeedbackData == {WireFeedback(s, n) : s \in {1, 2, MaxSSRC}, n \in {1, MaxSeq - 1}}

ArriveFeedback == Deliver(FeedbackData)

(* The token plays no part in sending and in receiver feedback. *)
InitHost == Created(ConnectedPeers) /\ token = 1

NextHost ==
  \/ ArriveFeedback
  \/ MIDIDriverAppleMIDIReceive
  \/ MIDIDriverAppleMIDISendMessage
  \/ MIDIDriverAppleMIDISend

SpecHost == InitHost /\ [][NextHost]_vars

(* The engine's configuration and idle tick, before any peer is connected. *)
NextConfig ==
  \/ MIDIDriverAppleMIDISetPort
  \/ MIDIDriverAppleMIDIIdle
  \/ MIDIDriverAppleMIDISendMessage
  \/ MIDIDriverAppleMIDIAddPeer
  \/ MIDIDriverAppleMIDIRemovePeer
  \/ MIDIDriverAppleMIDISetRTPSocket
  \/ MIDIDriverAppleMIDISetControlSocket

SpecConfig == Init /\ [][NextConfig]_vars

(***************************************************************************)
(* The message codec as a client drives it.  The client works on one       *)
(* message at a time: it picks a format, builds the record with Set and    *)
(* encodes it into a buffer of its own, or it decodes bytes into a fresh   *)
(* record.  It picks the format first, and picks again when there is none; *)
(* building on a record lets go of the bytes encoded before.               *)
(***************************************************************************)
MaxBuffer == 4

Properties ==
  {"MIDI_STATUS", "MIDI_CHANNEL", "MIDI_KEY", "MIDI_VELOCITY", "MIDI_PRESSURE",
   "MIDI_CONTROL", "MIDI_VALUE", "MIDI_VALUE_MSB", "MIDI_VALUE_LSB", "MIDI_PROGRAM",
   "MIDI_MANUFACTURER_ID", "MIDI_SYSEX_SIZE", "MIDI_SYSEX_FRAGMENT", "MIDI_SYSEX_DATA",
   "MIDI_TIME_CODE_TYPE"}

(* The blocks a client may hand over as payload. *)
Blocks == {NullPtr, [null |-> FALSE, mem |-> <<7, 8>>, from |-> "client"]}

CodecArg(property, size, v, p) == [property |-> property, size |-> size, v |-> v, p |-> p]

(* The objects a client passes to Set: their size and what they hold. *)
SetInputs(property) ==
  IF property = "MIDI_SYSEX_DATA"
  THEN {CodecArg(property, n, 0, p) : n \in {1, SizeofLong}, p \in Blocks}
  ELSE {CodecArg(property, 1, v, NullPtr) :
          v \in {3, 128} \cup (IF property \in {"MIDI_CHANNEL", "MIDI_TIME_CODE_TYPE"}
                                THEN {16} ELSE {})}
       \cup {CodecArg(property, 2, 300, NullPtr), CodecArg(property, SizeofLong, 2, NullPtr)}

(* Bytes as they come off the wire. *)
Inputs == {<<240, 3, 7, 8>>}

(* A buffer of size bytes nothing was stored in yet. *)
Blank(size) == [i \in 1..size |-> Unwritten]

(* What reading the buffer yields. *)
Wire(buf, junk) == [i \in 1..Len(buf) |-> IF buf[i] = Unwritten THEN junk ELSE buf[i]]

InitCodec == Created({}) /\ token = 1 /\ control_socket = 0

CodecStep ==
  /\ ~crashed
  /\ UNCHANGED engine_vars
  /\ UNCHANGED <<peers, live, visited>>
  /\ UNCHANGED midi_vars

Input ==
  /\ CodecStep
  /\ buffer' \in Inputs
  /\ message' = Fresh /\ source' = NoSource /\ value' = NoValue
  /\ api' = "Input" /\ ret' = 0 /\ arg' = CodecArg("none", 0, 0, NullPtr)
  /\ UNCHANGED <<format, crashed>>

Detect ==
  /\ CodecStep
  /\ format = "NULL"
  /\ \E b \in 0..255 :
       /\ format' = MIDIMessageFormatDetect(b)
       /\ arg' = CodecArg("none", 0, b, NullPtr)
  /\ message' = Fresh /\ buffer' = <<>> /\ source' = NoSource /\ value' = NoValue
  /\ api' = "MIDIMessageFormatDetect" /\ ret' = 0
  /\ UNCHANGED crashed

ForStatus ==
  /\ CodecStep
  /\ format = "NULL"
  /\ \E status \in 0..255 :
       /\ format' = MIDIMessageFormatForStatus(status)
       /\ arg' = CodecArg("none", 0, status, NullPtr)
  /\ message' = Fresh /\ buffer' = <<>> /\ source' = NoSource /\ value' = NoValue
  /\ api' = "MIDIMessageFormatForStatus" /\ ret' = 0
  /\ UNCHANGED crashed

GetSize ==
  /\ CodecStep
  /\ LET r == MIDIMessageFormatGetSize(format, message)
     IN /\ ret' = r.ret
        /\ value' = IF r.ret = 0 THEN [written |-> TRUE, v |-> r.size, p |-> NullPtr]
                    ELSE NoValue
  /\ api' = "MIDIMessageFormatGetSize" /\ arg' = CodecArg("none", 0, 0, NullPtr)
  /\ UNCHANGED <<format, message, buffer, source, crashed>>

Set ==
  /\ CodecStep
  /\ \E property \in Properties : \E in \in SetInputs(property) :
       LET r == MIDIMessageFormatSet(format, message, property, in.size, in.v, in.p)
       IN /\ message' = r.data
          /\ ret' = r.ret
          /\ arg' = in
  /\ buffer' = <<>> /\ source' = NoSource /\ value' = NoValue
  /\ api' = "MIDIMessageFormatSet"
  /\ UNCHANGED <<format, crashed>>

Get ==
  /\ CodecStep
  /\ \E property \in Properties : \E size \in {1, 2, SizeofLong} :
       LET r == MIDIMessageFormatGet(format, message, property, size)
       IN /\ value' = r.value
          /\ ret' = r.ret
          /\ arg' = CodecArg(property, size, 0, NullPtr)
  /\ api' = "MIDIMessageFormatGet"
  /\ UNCHANGED <<format, message, buffer, source, crashed>>

Encode ==
  /\ CodecStep
  /\ \E size \in 0..MaxBuffer : \E junk \in JunkBytes :
       LET r == MIDIMessageFormatEncode(format, message, size, Blank(size), junk)
       IN /\ buffer' = r.buffer
          /\ ret' = r.ret
          /\ source' = IF r.ret = 0 THEN [valid |-> TRUE, data |-> message] ELSE NoSource
          /\ arg' = CodecArg("none", size, 0, NullPtr)
  /\ value' = NoValue
  /\ api' = "MIDIMessageFormatEncode"
  /\ UNCHANGED <<format, message, crashed>>

Decode ==
  /\ CodecStep
  /\ \E size \in 0..Len(buffer) : \E junk \in JunkBytes :
       \E o \in MIDIMessageFormatDecode(format, Fresh, size, Wire(buffer, junk), junk) :
         /\ message' = o.data
         /\ ret' = o.ret
         /\ crashed' = o.crashed
         /\ arg' = CodecArg("none", size, 0, NullPtr)
  /\ value' = NoValue
  /\ api' = "MIDIMessageFormatDecode"
  /\ UNCHANGED <<format, buffer, source>>

(* Building and reading records. *)
NextCodec ==
  \/ Detect
  \/ ForStatus
  \/ GetSize
  \/ Set
  \/ Get

SpecCodec == InitCodec /\ [][NextCodec]_vars

(* Building records and putting them on and taking them off the wire. *)
NextWire ==
  \/ Detect
  \/ ForStatus
  \/ Input
  \/ Set
  \/ Encode
  \/ Decode

SpecWire == InitCodec /\ [][NextWire]_vars

(***************************************************************************)
(* The long value of pitch wheel change and song position pointer records: *)
(* the client sets MIDI_VALUE once on a new record of the format and reads *)
(* the value and its two halves back.  arg.v stays the value it has set.   *)
(***************************************************************************)
MaxLongValue == 128 * 128 - 1

LongFormats == {"_pitch_wheel_change", "_song_position_pointer"}

(* The status byte of a new record of the format. *)
LongStatus(fmt) ==
  IF fmt = "_pitch_wheel_change" THEN MIDI_STATUS_PITCH_WHEEL_CHANGE * 16
  ELSE MIDI_STATUS_SONG_POSITION_POINTER

InitValue ==
  /\ \E fds \in FdPairs : control_socket = fds[1] /\ rtp_socket = fds[2]
  /\ control_socket = 0 /\ token = 1
  /\ session_ssrc = 1 /\ timestamp = 0 /\ peers = {}
  /\ in_queue = <<>> /\ out_queue = <<>>
  /\ control_waiting = <<>> /\ rtp_waiting = <<>>
  /\ sent = <<>> /\ api = "Create" /\ ret = 0
  /\ route = "none" /\ crashed = FALSE /\ handled = NoDatagram
  /\ peers_before = {} /\ invited = FALSE
  /\ port = DefaultPort /\ control_bound = DefaultPort /\ rtp_bound = DefaultPort + 1
  /\ journal = NoJournal /\ send_sequence = 0 /\ pushed = 0
  /\ popped = <<>> /\ handed = <<>> /\ journal_before = NoJournal
  /\ buffer = <<>> /\ source = NoSource /\ value = NoValue /\ live = {}
  /\ visited = <<>>
  /\ closed = {} /\ controller = NoController /\ driver = NoDriver
  /\ format \in LongFormats
  /\ message = [Fresh EXCEPT !.bytes[1] = LongStatus(format)]
  /\ \E v \in 0..MaxLongValue :
       arg = CodecArg("MIDI_VALUE", Sizeof("MIDILongValue"), v, NullPtr)

SetValue ==
  /\ CodecStep
  /\ api = "Create"
  /\ LET r == MIDIMessageFormatSet(format, message, arg.property, arg.size, arg.v, arg.p)
     IN message' = r.data /\ ret' = r.ret
  /\ api' = "MIDIMessageFormatSet"
  /\ UNCHANGED <<format, buffer, source, value, arg, crashed>>

GetValue ==
  /\ CodecStep
  /\ api # "Create"
  /\ \E property \in {"MIDI_VALUE", "MIDI_VALUE_LSB", "MIDI_VALUE_MSB"} :
       LET size == IF property = "MIDI_VALUE" THEN Sizeof("MIDILongValue")
                   ELSE Sizeof("MIDIValue")
           r == MIDIMessageFormatGet(format, message, property, size)
       IN /\ value' = r.value /\ ret' = r.ret
          /\ arg' = [arg EXCEPT !.property = property, !.size = size]
  /\ api' = "MIDIMessageFormatGet"
  /\ UNCHANGED <<format, message, buffer, source, crashed>>

NextValue ==
  \/ SetValue
  \/ GetValue

SpecValue == InitValue /\ [][NextValue]_vars

(***************************************************************************)
(* The peers of the RTP session as test002_rtp drives it: peers are        *)
(* created with an ssrc and an address of their own, added, looked up by   *)
(* ssrc and by address, walked and removed.                                *)
(***************************************************************************)
PeerAddress(ssrc) == [host |-> "remote", port |-> RemoteControlAddr.port + 2 * ssrc]

TestPeers == {RTPPeerCreate(ssrc, PeerAddress(ssrc)) : ssrc \in 1..(MaxSSRC + 1)}

RTPStep ==
  /\ ~crashed
  /\ UNCHANGED engine_vars
  /\ UNCHANGED midi_vars
  /\ UNCHANGED <<format, message, buffer, source, crashed>>

AddPeer ==
  /\ RTPStep
  /\ \E peer \in TestPeers :
       /\ peers' = RTPSessionAddPeer(peers, session_ssrc, peer)
       /\ ret' = IF peer \in peers' /\ peer \notin peers THEN 0 ELSE 1
       /\ live' = IF ret' = 0 THEN live \cup {peer} ELSE live
       /\ arg' = peer
  /\ api' = "RTPSessionAddPeer" /\ value' = NoValue /\ visited' = <<>>

RemovePeer ==
  /\ RTPStep
  /\ \E peer \in TestPeers :
       /\ peers' = RTPSessionRemovePeer(peers, peer)
       /\ ret' = IF peer \in peers THEN 0 ELSE 1
       /\ live' = IF ret' = 0 THEN live \ {peer} ELSE live
       /\ arg' = peer
  /\ api' = "RTPSessionRemovePeer" /\ value' = NoValue /\ visited' = <<>>

(* What a lookup leaves in the caller's pointer and returns. *)
Lookup(found) ==
  IF found = {} THEN [ret |-> 1, value |-> NoValue]
  ELSE [ret |-> 0, value |-> [written |-> TRUE, v |-> 0, p |-> CHOOSE q \in found : TRUE]]

FindPeerBySSRC ==
  /\ RTPStep
  /\ \E peer \in TestPeers :
       LET r == Lookup(RTPSessionFindPeerBySSRC(peers, peer.ssrc))
       IN ret' = r.ret /\ value' = r.value /\ arg' = peer
  /\ api' = "RTPSessionFindPeerBySSRC" /\ visited' = <<>>
  /\ UNCHANGED <<peers, live>>

FindPeerByAddress ==
  /\ RTPStep
  /\ \E peer \in TestPeers :
       LET r == Lookup(RTPSessionFindPeerByAddress(peers, peer.addr))
       IN ret' = r.ret /\ value' = r.value /\ arg' = peer
  /\ api' = "RTPSessionFindPeerByAddress" /\ visited' = <<>>
  /\ UNCHANGED <<peers, live>>

(* p = NULL; then RTPSessionNextPeer( session, &p ) until p is NULL again *)
NextPeer ==
  /\ RTPStep
  /\ visited' = NextPeers(peers, {}, Cardinality(TestPeers) + 1)
  /\ api' = "RTPSessionNextPeer" /\ ret' = 0 /\ arg' = NoArg /\ value' = NoValue
  /\ UNCHANGED <<peers, live>>

(* The header and payload RTPSessionSendPacket hands to the socket: V = 2,  *)
(* P, X and CC in the first byte, M and PT in the second, then sequence    *)
(* number, timestamp and ssrc in network order, the csrc list, the payload.*)
RTPSessionSendPacket(ssrc, info) ==
  <<128 + (IF info.padding > 0 THEN 32 ELSE 0) + 16 * info.extension
        + (info.csrc_count % 16),
    128 * info.marker + (info.payload_type % 128),
    (info.sequence_number \div 256) % 256, info.sequence_number % 256>>
  \o htonl(info.timestamp) \o htonl(ssrc)
  \o (IF info.csrc_count > 0 THEN htonl(info.csrc[1]) ELSE <<>>)
  \o (IF info.csrc_count > 1 THEN htonl(info.csrc[2]) ELSE <<>>)
  \o info.payload

(* A receive that leaves the pad count in the payload size. *)
RTPSessionReceive_KeepsPad(datagram) ==
  LET size == Len(datagram)
      cc == datagram[1] % 16
      pad == IF (datagram[1] \div 32) % 2 = 1 THEN datagram[size] ELSE 0
      start == 12 + 4 * cc
  IN IF size < 12 \/ datagram[1] \div 64 # 2 \/ size - start - pad < 0
     THEN [ret |-> 1, value |-> NoValue]
     ELSE [ret |-> 0,
           value |-> [written |-> TRUE, v |-> 0,
                      p |-> [padding |-> pad,
                             extension |-> (datagram[1] \div 16) % 2,
                             csrc_count |-> cc,
                             marker |-> datagram[2] \div 128,
                             payload_type |-> datagram[2] % 128,
                             sequence_number |-> datagram[3] * 256 + datagram[4],
                             timestamp |-> ntohl(datagram, 1),
                             ssrc |-> ntohl(datagram, 2),
                             payload_size |-> size - start,
                             payload |-> SubSeq(datagram, start + 1, size)]]]

(* The packet info RTPSessionReceive fills in from one datagram: the       *)
(* version is checked, the fields are taken from the header, and with P    *)
(* set the last byte counts the padding that is taken off the payload.     *)
RTPSessionReceive(datagram) ==
  LET size == Len(datagram)
      cc == datagram[1] % 16
      pad == IF (datagram[1] \div 32) % 2 = 1 THEN datagram[size] ELSE 0
      start == 12 + 4 * cc
  IN IF size < 12 \/ datagram[1] \div 64 # 2 \/ size - start - pad < 0
     THEN [ret |-> 1, value |-> NoValue]
     ELSE [ret |-> 0,
           value |-> [written |-> TRUE, v |-> 0,
                      p |-> [padding |-> pad,
                             extension |-> (datagram[1] \div 16) % 2,
                             csrc_count |-> cc,
                             marker |-> datagram[2] \div 128,
                             payload_type |-> datagram[2] % 128,
                             sequence_number |-> datagram[3] * 256 + datagram[4],
                             timestamp |-> ntohl(datagram, 1),
                             ssrc |-> ntohl(datagram, 2),
                             payload_size |-> size - start - pad,
                             payload |-> SubSeq(datagram, start + 1, size - pad)]]]

(* The packets of test003_rtp: no padding, no extension, up to two csrc    *)
(* entries, the test's payload or a shorter one.                           *)
PacketInfos ==
  {[padding |-> 0, extension |-> 0, csrc_count |-> c, marker |-> m,
    payload_type |-> 96, sequence_number |-> 4660, timestamp |-> 0,
    csrc |-> <<7364688, 67305985>>, payload_size |-> Len(payload),
    payload |-> payload] :
     c \in 0..2, m \in {0, 1}, payload \in {<<>>, <<1, 2, 3, 4>>, <<0, 1, 2, 3, 4, 5, 6, 7>>}}

(* send_buffer of test004_rtp: P is set and the last byte counts four      *)
(* bytes of padding.                                                       *)
PaddedDatagram ==
  <<160, 96, 52, 18, 5, 6, 7, 8, 21, 205, 91, 7, 1, 2, 3, 4, 202, 254, 0, 4>>

(* What reaches the session's socket: the test's datagram, the packets     *)
(* above as they are, with one byte of padding, and with a wrong version.  *)
Datagrams ==
  LET plain == {RTPSessionSendPacket(1, info) : info \in PacketInfos}
  IN {PaddedDatagram} \cup plain
     \cup {[d EXCEPT ![1] = @ + 32] \o <<1>> : d \in plain}
     \cup {[d EXCEPT ![1] = @ - 64] : d \in plain}

PacketStep ==
  /\ ~crashed
  /\ UNCHANGED engine_vars
  /\ UNCHANGED midi_vars
  /\ UNCHANGED <<format, message, source, crashed, peers, live>>
  /\ visited' = <<>>

(* test003_rtp: the peer is looked up, then the packet is sent to it. *)
SendPacket ==
  /\ PacketStep
  /\ \E info \in PacketInfos, peer \in TestPeers :
       /\ arg' = info
       /\ IF peer \in peers
          THEN ret' = 0 /\ buffer' = RTPSessionSendPacket(session_ssrc, info)
          ELSE ret' = 1 /\ buffer' = <<>>
  /\ api' = "RTPSessionSendPacket" /\ value' = NoValue

(* test004_rtp: one datagram is received into the packet info. *)
ReceivePacket ==
  /\ PacketStep
  /\ \E datagram \in Datagrams :
       LET r == RTPSessionReceive(datagram)
       IN ret' = r.ret /\ value' = r.value /\ buffer' = datagram
  /\ api' = "RTPSessionReceive" /\ arg' = NoArg

NextRTP ==
  \/ AddPeer
  \/ RemovePeer
  \/ FindPeerBySSRC
  \/ FindPeerByAddress
  \/ NextPeer
  \/ SendPacket
  \/ ReceivePacket

SpecRTP == InitCodec /\ [][NextRTP]_vars

(***************************************************************************)
(* The controller and the plain driver of the MIDI library, driven by a    *)
(* client that feeds control changes and messages to them.                 *)
(***************************************************************************)
MaxReceived == 5

N_CONTROLS == 128
MIDI_CONTROL_DATA_ENTRY == 6
MIDI_CONTROL_CHANNEL_VOLUME == 7
MIDI_CONTROL_PAN == 10
MIDI_CONTROL_EXPRESSION_CONTROLLER == 11
MIDI_CONTROL_DATA_INCREMENT == 96
MIDI_CONTROL_DATA_DECREMENT == 97
MIDI_CONTROL_NON_REGISTERED_PARAMETER_NUMBER == 98
MIDI_CONTROL_REGISTERED_PARAMETER_NUMBER == 100
MIDI_CONTROL_ALL_SOUND_OFF == 120
MIDI_CONTROL_RESET_ALL_CONTROLLERS == 121
MIDI_CONTROL_RPN_PITCH_BEND_RANGE == 0
MIDI_CONTROL_RPN_COARSE_TUNING == 2
MIDI_CONTROL_RPN_RESET == 16383

(* The controls that go through the current parameter. *)
DataControls ==
  {MIDI_CONTROL_DATA_ENTRY, MIDI_CONTROL_DATA_ENTRY + 32,
   MIDI_CONTROL_DATA_INCREMENT, MIDI_CONTROL_DATA_DECREMENT}

(* parameter >= MIDI_CONTROL_RPN_PITCH_BEND_RANGE                          *)
(*   && parameter <= MIDI_CONTROL_RPN_COARSE_TUNING                        *)
Supported(parameter) ==
  /\ parameter >= MIDI_CONTROL_RPN_PITCH_BEND_RANGE
  /\ parameter <= MIDI_CONTROL_RPN_COARSE_TUNING

(* _reset_controls.  The pitch bend range is kept in bytes 0 and 1 and the *)
(* fine tuning in bytes 2 and 3 of registered_parameters; the coarse       *)
(* tuning is written at the index its parameter number gives.              *)
_reset_controls(c) ==
  [c EXCEPT
     !.controls = [i \in 0..(N_CONTROLS - 1) |->
        IF i \in {MIDI_CONTROL_EXPRESSION_CONTROLLER,
                  MIDI_CONTROL_DATA_ENTRY, MIDI_CONTROL_DATA_ENTRY + 32,
                  MIDI_CONTROL_NON_REGISTERED_PARAMETER_NUMBER,
                  MIDI_CONTROL_NON_REGISTERED_PARAMETER_NUMBER + 1,
                  MIDI_CONTROL_REGISTERED_PARAMETER_NUMBER,
                  MIDI_CONTROL_REGISTERED_PARAMETER_NUMBER + 1}
        THEN 127 ELSE c.controls[i]],
     !.current_parameter = MIDI_CONTROL_RPN_RESET,
     !.current_parameter_registered = FALSE,
     !.registered_parameters = [j \in 0..5 |->
        IF j = 0 THEN 2
        ELSE IF j \in {1, 3} THEN 0
        ELSE IF j = MIDI_CONTROL_RPN_COARSE_TUNING THEN 64
        ELSE c.registered_parameters[j]]]

(* The list pointer the controller may find in its unwritten member: null, *)
(* a node without parameter, a node with one, or no readable memory.       *)
NRPLists ==
  {[wild |-> TRUE, nodes |-> <<>>], [wild |-> FALSE, nodes |-> <<>>]}
  \cup {[wild |-> FALSE, nodes |-> <<[null |-> TRUE, number |-> 0, value |-> 0]>>]}
  \cup {[wild |-> FALSE, nodes |-> <<[null |-> FALSE, number |-> k, value |-> 0]>>] :
          k \in {0, MIDI_CONTROL_RPN_RESET}}

(* MIDIControllerCreate: malloc, _initialize_controls; list and the bytes  *)
(* of registered_parameters no reset writes keep what malloc has left.     *)
MIDIControllerCreate ==
  {[_reset_controls(
      [made |-> TRUE, spinning |-> FALSE, received |-> 0,
       current_parameter |-> 0, current_parameter_registered |-> FALSE,
       controls |-> [i \in 0..(N_CONTROLS - 1) |-> 0],
       registered_parameters |-> [j \in 0..5 |-> b],
       list |-> list])
    EXCEPT !.controls[MIDI_CONTROL_CHANNEL_VOLUME] = 100,
           !.controls[MIDI_CONTROL_EXPRESSION_CONTROLLER] = 127,
           !.controls[MIDI_CONTROL_PAN] = 64] :
     list \in NRPLists, b \in JunkBytes}

(* while( list != NULL ) of the two list walks: the body returns on a      *)
(* match, leaving the controller as found, and otherwise leaves list as    *)
(* it is.                                                                  *)
Walk(c, parameter, found) ==
  IF c.list.wild THEN [c |-> c, out |-> "wild"]
  ELSE IF c.list.nodes = <<>> THEN [c |-> c, out |-> "done"]
  ELSE IF ~c.list.nodes[1].null /\ c.list.nodes[1].number = parameter
  THEN [c |-> found, out |-> "done"]
  ELSE [c |-> c, out |-> "spins"]

(* What both loads do with a selector of MIDI_CONTROL_RPN_RESET. *)
LoadReset(c) ==
  [c EXCEPT !.controls[MIDI_CONTROL_DATA_ENTRY] = 127,
            !.controls[MIDI_CONTROL_DATA_ENTRY + 32] = 127,
            !.current_parameter = MIDI_CONTROL_RPN_RESET]

(* _load_current_parameter with _load_non_registered_parameter and         *)
(* _load_registered_parameter.                                             *)
_load_current_parameter(c) ==
  IF ~c.current_parameter_registered
  THEN LET parameter ==
             MIDI_LONG_VALUE(c.controls[MIDI_CONTROL_NON_REGISTERED_PARAMETER_NUMBER + 1],
                             c.controls[MIDI_CONTROL_NON_REGISTERED_PARAMETER_NUMBER])
           node == c.list.nodes[1]
           load ==
             [c EXCEPT !.controls[MIDI_CONTROL_DATA_ENTRY] = MIDI_MSB(node.value),
                       !.controls[MIDI_CONTROL_DATA_ENTRY + 32] = MIDI_LSB(node.value),
                       !.current_parameter = parameter]
       IN IF parameter = c.current_parameter THEN [c |-> c, out |-> "done"]
          ELSE IF parameter = MIDI_CONTROL_RPN_RESET
          THEN [c |-> LoadReset(c), out |-> "done"]
          ELSE Walk(c, parameter, load)
  ELSE LET parameter ==
             MIDI_LONG_VALUE(c.controls[MIDI_CONTROL_REGISTERED_PARAMETER_NUMBER + 1],
                             c.controls[MIDI_CONTROL_REGISTERED_PARAMETER_NUMBER])
       IN [out |-> "done",
           c |-> IF parameter = c.current_parameter THEN c
                 ELSE IF parameter = MIDI_CONTROL_RPN_RESET THEN LoadReset(c)
                 ELSE IF Supported(parameter)
                 THEN [c EXCEPT
                         !.controls[MIDI_CONTROL_DATA_ENTRY] =
                            c.registered_parameters[parameter * 2],
                         !.controls[MIDI_CONTROL_DATA_ENTRY + 32] =
                            c.registered_parameters[parameter * 2 + 1],
                         !.current_parameter = parameter]
                 ELSE c]

(* _store_current_parameter with _store_non_registered_parameter and       *)
(* _store_registered_parameter.                                            *)
_store_current_parameter(c) ==
  IF ~c.current_parameter_registered
  THEN LET store ==
             [c EXCEPT !.list.nodes[1].value =
                MIDI_LONG_VALUE(c.controls[MIDI_CONTROL_DATA_ENTRY],
                                c.controls[MIDI_CONTROL_DATA_ENTRY + 32])]
       IN Walk(c, c.current_parameter, store)
  ELSE [out |-> "done",
        c |-> IF c.current_parameter # MIDI_CONTROL_RPN_RESET
                 /\ Supported(c.current_parameter)
              THEN [c EXCEPT
                      !.registered_parameters[c.current_parameter * 2] =
                         c.controls[MIDI_CONTROL_DATA_ENTRY],
                      !.registered_parameters[c.current_parameter * 2 + 1] =
                         c.controls[MIDI_CONTROL_DATA_ENTRY + 32]]
              ELSE c]

(* MIDIControllerReceiveControlChange; MIDIValue is an unsigned char. *)
MIDIControllerReceiveControlChange(c, control, v) ==
  IF control \in DataControls
  THEN LET loaded == _load_current_parameter(c)
           lsb == loaded.c.controls[MIDI_CONTROL_DATA_ENTRY + 32]
           changed ==
             IF control = MIDI_CONTROL_DATA_INCREMENT
             THEN [loaded.c EXCEPT !.controls[MIDI_CONTROL_DATA_ENTRY + 32] = (lsb + 1) % 256]
             ELSE IF control = MIDI_CONTROL_DATA_DECREMENT
             THEN [loaded.c EXCEPT !.controls[MIDI_CONTROL_DATA_ENTRY + 32] = (lsb + 255) % 256]
             ELSE [loaded.c EXCEPT !.controls[control] = v]
       IN IF loaded.out # "done" THEN loaded ELSE _store_current_parameter(changed)
  ELSE IF control < MIDI_CONTROL_ALL_SOUND_OFF
  THEN [out |-> "done",
        c |-> [c EXCEPT
                 !.controls[control] = v,
                 !.current_parameter_registered =
                    IF control \in {MIDI_CONTROL_REGISTERED_PARAMETER_NUMBER,
                                    MIDI_CONTROL_REGISTERED_PARAMETER_NUMBER + 1}
                    THEN TRUE
                    ELSE IF control \in {MIDI_CONTROL_NON_REGISTERED_PARAMETER_NUMBER,
                                         MIDI_CONTROL_NON_REGISTERED_PARAMETER_NUMBER + 1}
                    THEN FALSE
                    ELSE @]]
  ELSE IF control = MIDI_CONTROL_RESET_ALL_CONTROLLERS
  THEN [out |-> "done", c |-> _reset_controls(c)]
  ELSE [out |-> "done", c |-> c]

(* The control changes the client feeds to the controller. *)
ControlChanges ==
  {[control |-> MIDI_CONTROL_DATA_ENTRY, value |-> 3],
   [control |-> MIDI_CONTROL_DATA_INCREMENT, value |-> 0],
   [control |-> MIDI_CONTROL_DATA_DECREMENT, value |-> 0],
   [control |-> MIDI_CONTROL_NON_REGISTERED_PARAMETER_NUMBER, value |-> 0],
   [control |-> MIDI_CONTROL_REGISTERED_PARAMETER_NUMBER, value |-> 0],
   [control |-> MIDI_CONTROL_REGISTERED_PARAMETER_NUMBER, value |-> 5],
   [control |-> MIDI_CONTROL_REGISTERED_PARAMETER_NUMBER + 1, value |-> 0],
   [control |-> MIDI_CONTROL_RESET_ALL_CONTROLLERS, value |-> 0]}

(* A call of the library by its client, which is stuck once a call does    *)
(* not return.                                                             *)
MidiStep ==
  /\ ~crashed /\ ~controller.spinning
  /\ UNCHANGED engine_vars
  /\ UNCHANGED codec_vars
  /\ UNCHANGED peers

CreateController ==
  /\ MidiStep
  /\ ~controller.made
  /\ controller' \in MIDIControllerCreate
  /\ api' = "MIDIControllerCreate" /\ ret' = 0 /\ arg' = NoArg
  /\ UNCHANGED <<driver, crashed>>

(* The controller counts the control changes it has been fed. *)
ReceiveControlChange ==
  /\ MidiStep
  /\ controller.made /\ controller.received < MaxReceived
  /\ \E change \in ControlChanges :
       LET r == MIDIControllerReceiveControlChange(controller, change.control, change.value)
       IN /\ controller' = [r.c EXCEPT !.received = @ + 1,
                                       !.spinning = (r.out = "spins")]
          /\ crashed' = (r.out = "wild")
          /\ arg' = change
  /\ api' = "MIDIControllerReceiveControlChange" /\ ret' = 0
  /\ UNCHANGED driver

(* MIDIDriverCreate with MIDIDriverInit; looped tells that                 *)
(* MIDIDriverMakeLoopback has returned 0, relayed holds the messages the   *)
(* last call has passed to MIDIDriverReceive.                              *)
DriverCreate ==
  /\ MidiStep
  /\ ~driver.made
  /\ driver' = [made |-> TRUE, send |-> "NULL", looped |-> FALSE, relayed |-> <<>>]
  /\ api' = "MIDIDriverCreate" /\ ret' = 0 /\ arg' = NoArg
  /\ UNCHANGED <<controller, crashed>>

(* MIDIDriverMakeLoopback: its body is a comment. *)
MIDIDriverMakeLoopback ==
  /\ MidiStep
  /\ driver.made
  /\ driver' = [driver EXCEPT !.looped = TRUE, !.relayed = <<>>]
  /\ api' = "MIDIDriverMakeLoopback" /\ ret' = 0 /\ arg' = NoArg
  /\ UNCHANGED <<controller, crashed>>

(* The messages the client sends: a note on and a note off. *)
DriverMessages == {MIDI_STATUS_NOTE_ON * 16, MIDI_STATUS_NOTE_OFF * 16 + 1}

(* MIDIDriverSend: the send hook is called when there is one; the only     *)
(* hook a loopback could install is MIDIDriverReceive.                     *)
MIDIDriverSend ==
  /\ MidiStep
  /\ driver.made
  /\ \E msg \in DriverMessages :
       /\ arg' = msg
       /\ IF driver.send = "NULL"
          THEN ret' = 1 /\ driver' = [driver EXCEPT !.relayed = <<>>]
          ELSE ret' = 0 /\ driver' = [driver EXCEPT !.relayed = <<msg>>]
  /\ api' = "MIDIDriverSend"
  /\ UNCHANGED <<controller, crashed>>

(* MIDIDriverReceive: the message is passed on through the driver's port. *)
MIDIDriverReceive ==
  /\ MidiStep
  /\ driver.made
  /\ \E msg \in DriverMessages :
       arg' = msg /\ driver' = [driver EXCEPT !.relayed = <<msg>>]
  /\ api' = "MIDIDriverReceive" /\ ret' = 0
  /\ UNCHANGED <<controller, crashed>>

NextMidi ==
  \/ CreateController
  \/ ReceiveControlChange
  \/ DriverCreate
  \/ MIDIDriverMakeLoopback
  \/ MIDIDriverSend
  \/ MIDIDriverReceive

SpecMidi == InitCodec /\ [][NextMidi]_vars

(***************************************************************************)
(* Reading datagrams as the protocol defines them.                         *)
(***************************************************************************)
WireIs(data, type) ==
  /\ Len(data) >= 4
  /\ ntohs(data, 0) = APPLEMIDI_PROTOCOL_SIGNATURE
  /\ ntohs(data, 1) = type

IsAppleMIDI(data) == \E type \in CommandCodes : WireIs(data, type)

(* A session command (IN, OK, NO, BY) with all its fixed fields. *)
IsSession(data, type) == WireIs(data, type) /\ Len(data) >= 16

(* A CK with ssrc, count and three timestamps. *)
IsSync(data) == WireIs(data, APPLEMIDI_COMMAND_SYNCHRONIZATION) /\ Len(data) >= 24

WireWord(data, i) == ntohl(data, i)

PeerSSRCs(table) == {p.ssrc : p \in table}

(***************************************************************************)
(* Claims.                                                                 *)
(***************************************************************************)

(* C1: when a well-formed RTP-MIDI datagram of a peer of the table is       *)
(* waiting on the data socket, one receive tick leaves the decoded message  *)
(* in the in-queue (payload 83 3C 40: one Note-Off, channel 3, key 60,      *)
(* velocity 64).                                                            *)
C1_ReceiveDeliversMessage ==
  [][(/\ control_waiting = <<>> /\ rtp_waiting # <<>>
      /\ \E p \in peers :
           /\ p.addr = Head(rtp_waiting).from
           /\ Head(rtp_waiting).data = WireRTP(5, 0, p.ssrc, NoteOffPayload)
      /\ api' = "Receive")
     => \E o \in DecodeBytes(3, Fresh, Len(NoteOffPayload), NoteOffPayload) :
          in_queue' = Append(in_queue, o.data)]_vars

(* C2: a datagram that begins with the signature and one of the six command *)
(* codes is handled as a command; any other datagram that arrived on the    *)
(* data socket goes to the RTP-MIDI receive path and is not parsed as a     *)
(* command.                                                                 *)
C2_DispatchBySignature ==
  (api = "Receive" /\ handled # NoDatagram) =>
    /\ IsAppleMIDI(handled.data) => route = "command"
    /\ (~IsAppleMIDI(handled.data) /\ handled.fd = rtp_socket) => route = "rtpmidi"

(* C3: an inbound OK whose token is not the token of the engine's           *)
(* invitations adds no peer to the RTP session.                             *)
C3_AcceptNeedsToken ==
  (/\ api = "Receive"
   /\ IsSession(handled.data, APPLEMIDI_COMMAND_INVITATION_ACCEPTED)
   /\ WireWord(handled.data, 2) # token)
  => peers = peers_before

(* C4: as initiator, when the OK answering the control-socket invitation    *)
(* arrives, the engine records the peer's ssrc and sends a second IN on the *)
(* data socket to the peer's port + 1.                                      *)
C4_SecondInvitation ==
  (/\ api = "Receive" /\ invited
   /\ handled.fd = control_socket
   /\ handled.from = RemoteControlAddr
   /\ IsSession(handled.data, APPLEMIDI_COMMAND_INVITATION_ACCEPTED)
   /\ WireWord(handled.data, 2) = token
   /\ WireWord(handled.data, 3) # session_ssrc)
  => /\ WireWord(handled.data, 3) \in PeerSSRCs(peers)
     /\ \E i \in DOMAIN sent :
          /\ sent[i].fd = rtp_socket
          /\ sent[i].to = [host |-> handled.from.host, port |-> handled.from.port + 1]
          /\ WireIs(sent[i].data, APPLEMIDI_COMMAND_INVITATION)

(* C5: as responder, an IN is answered on the same socket, to the sender's  *)
(* address, with an OK of the same version and token that carries the local *)
(* ssrc and an empty name.                                                  *)
C5_AcceptMirrorsInvitation ==
  (api = "Receive" /\ IsSession(handled.data, APPLEMIDI_COMMAND_INVITATION)) =>
    sent = <<[fd |-> handled.fd, to |-> handled.from,
              data |-> SignatureWord(APPLEMIDI_COMMAND_INVITATION_ACCEPTED)
                         \o SubSeq(handled.data, 5, 12) \o htonl(session_ssrc)]>>

(* C6: when the engine accepts an inbound IN (answers it with OK), the      *)
(* inviting peer's ssrc is found in the peer table afterwards.              *)
C6_AcceptCreatesPeer ==
  (/\ api = "Receive"
   /\ IsSession(handled.data, APPLEMIDI_COMMAND_INVITATION)
   /\ WireWord(handled.data, 3) # session_ssrc
   /\ \E i \in DOMAIN sent : WireIs(sent[i].data, APPLEMIDI_COMMAND_INVITATION_ACCEPTED))
  => RTPSessionFindPeerBySSRC(peers, WireWord(handled.data, 3)) # {}

C9_RemovePeerSendsEndSession ==
  api = "RemovePeer" =>
    IF RTPSessionFindPeerByAddress(peers_before, arg) # {}
    THEN /\ Len(sent) = 1
         /\ sent[1].fd = control_socket
         /\ sent[1].to = arg
         /\ IsSession(sent[1].data, APPLEMIDI_COMMAND_ENDSESSION)
         /\ WireWord(sent[1].data, 3) = session_ssrc
         /\ \E p \in RTPSessionFindPeerByAddress(peers_before, arg) :
              peers = peers_before \ {p}
    ELSE ret # 0 /\ peers = peers_before

(* C10: an inbound CK of a peer with count 0 is answered with count 1, t1   *)
(* unchanged and t2 the current timestamp; one with count 1 is answered     *)
(* with count 2, t1 and t2 unchanged and t3 the current timestamp; every CK *)
(* sent carries the local ssrc.                                             *)
C10_SyncRounds ==
  (/\ api = "Receive" /\ route = "command"
   /\ IsSync(handled.data)
   /\ WireWord(handled.data, 1) \in PeerSSRCs(peers_before))
  => /\ WireWord(handled.data, 2) = 0 =>
          /\ Len(sent) = 1
          /\ sent[1].data = SignatureWord(APPLEMIDI_COMMAND_SYNCHRONIZATION)
                              \o htonl(session_ssrc) \o htonl(1)
                              \o SubSeq(handled.data, 13, 16) \o htonl(timestamp)
                              \o htonl(0)
     /\ WireWord(handled.data, 2) = 1 =>
          /\ Len(sent) = 1
          /\ sent[1].data = SignatureWord(APPLEMIDI_COMMAND_SYNCHRONIZATION)
                              \o htonl(session_ssrc) \o htonl(2)
                              \o SubSeq(handled.data, 13, 20) \o htonl(timestamp)
     /\ \A i \in DOMAIN sent :
          IsSync(sent[i].data) => WireWord(sent[i].data, 1) = session_ssrc

(* A RS with ssrc and seqnum. *)
IsFeedback(data) == WireIs(data, APPLEMIDI_COMMAND_RECEIVER_FEEDBACK) /\ Len(data) >= 12

(* C11: after the engine has processed the final round (count 2) of a CK    *)
(* exchange with a peer, the timestamp_diff of that peer in the peer table  *)
(* is ((t3 - t1) / 2) + (t2 - t3), computed from the three timestamps of    *)
(* the exchange.                                                            *)
C11_SyncStoresDiff ==
  (/\ api = "Receive" /\ route = "command"
   /\ IsSync(handled.data)
   /\ WireWord(handled.data, 1) \in PeerSSRCs(peers_before)
   /\ WireWord(handled.data, 2) = 2)
  => LET t1 == WireWord(handled.data, 3)
         t2 == WireWord(handled.data, 4)
         t3 == WireWord(handled.data, 5)
     IN \E p \in RTPSessionFindPeerBySSRC(peers, WireWord(handled.data, 1)) :
          p.timestamp_diff = ((t3 - t1) \div 2) + (t2 - t3)

(* C12: an inbound CK that carries the session's own ssrc is discarded: no  *)
(* datagram is sent in response and the peer table is unchanged.            *)
C12_EchoDiscarded ==
  (/\ api = "Receive" /\ route = "command"
   /\ IsSync(handled.data)
   /\ WireWord(handled.data, 1) = session_ssrc)
  => sent = <<>> /\ peers = peers_before

(* C13: the receive tick that processes an OK and records the new peer      *)
(* also sends that peer the first CK.                                       *)
C13_SyncAfterInvitation ==
  (/\ api = "Receive" /\ route = "command"
   /\ IsSession(handled.data, APPLEMIDI_COMMAND_INVITATION_ACCEPTED)
   /\ peers # peers_before)
  => \E i \in DOMAIN sent : WireIs(sent[i].data, APPLEMIDI_COMMAND_SYNCHRONIZATION)

C15_SendDrainsQueue ==
  (api = "Send" /\ route = "sent") => out_queue = <<>>

(* C16: the messages a send tick takes from the out-queue are handed to the *)
(* RTP-MIDI session once each and in the order they were pushed.            *)
C16_SendKeepsOrder ==
  (api = "Send" /\ route = "sent") => handed = popped

(* C17: a datagram on the control socket that does not begin with the       *)
(* signature and one of the six command codes is dropped: the receive tick  *)
(* returns 0, sends nothing and leaves the peer table and the journals      *)
(* unchanged.                                                               *)
C17_ControlDropsForeign ==
  (/\ api = "Receive" /\ handled # NoDatagram
   /\ handled.fd = control_socket
   /\ ~IsAppleMIDI(handled.data))
  => /\ ret = 0 /\ sent = <<>>
     /\ peers = peers_before /\ journal = journal_before

(* C18: a command datagram shorter than the fixed fields of its command is  *)
(* dropped: no peer is added or removed, no journal is truncated and no     *)
(* reply is sent.                                                           *)
C18_ShortCommandDropped ==
  (/\ api = "Receive" /\ handled # NoDatagram
   /\ \/ \E type \in SessionCommands :
           WireIs(handled.data, type) /\ ~IsSession(handled.data, type)
      \/ WireIs(handled.data, APPLEMIDI_COMMAND_SYNCHRONIZATION) /\ ~IsSync(handled.data)
      \/ WireIs(handled.data, APPLEMIDI_COMMAND_RECEIVER_FEEDBACK)
           /\ ~IsFeedback(handled.data))
  => /\ sent = <<>>
     /\ peers = peers_before /\ journal = journal_before

(* C19: the idle tick returns 0 when nothing has failed. *)
C19_IdleReturnsZero ==
  (api = "Idle" /\ ~crashed) => ret = 0

(* C20: in every state the control socket is bound to the base port that    *)
(* GetPort yields and the RTP socket to that port plus one.                 *)
C20_SocketsBoundToPort ==
  /\ control_bound = MIDIDriverAppleMIDIGetPort
  /\ rtp_bound = MIDIDriverAppleMIDIGetPort + 1

(***************************************************************************)
(* The variants of the message codec and the first bytes they stand for.   *)
(***************************************************************************)
ChannelVoice(nibble) ==
  CASE nibble \in {MIDI_STATUS_NOTE_OFF, MIDI_STATUS_NOTE_ON} -> "_note_off_on"
    [] nibble = MIDI_STATUS_POLYPHONIC_KEY_PRESSURE -> "_polyphonic_key_pressure"
    [] nibble = MIDI_STATUS_CONTROL_CHANGE -> "_control_change"
    [] nibble = MIDI_STATUS_PROGRAM_CHANGE -> "_program_change"
    [] nibble = MIDI_STATUS_CHANNEL_PRESSURE -> "_channel_pressure"
    [] nibble = MIDI_STATUS_PITCH_WHEEL_CHANGE -> "_pitch_wheel_change"

RealTimeBytes == {248} \cup (250..255 \ {253})

(* C24: detect depends on the first byte b only: for b in 0x80..0xEF it     *)
(* yields the channel-voice descriptor of the high nibble, for 0xF0 the     *)
(* SysEx descriptor, for 0xF1, 0xF2, 0xF3 and 0xF6 the system-common        *)
(* descriptor of that status, for 0xF8 and 0xFA..0xFF except 0xFD the       *)
(* real-time descriptor, and no descriptor for any other byte (0xF4, 0xF5,  *)
(* 0xF7, 0xF9, 0xFD and every byte below 0x80).                             *)
C24_DetectByFirstByte ==
  api = "MIDIMessageFormatDetect" =>
    LET b == arg.v
    IN format = CASE b \in 128..239 -> ChannelVoice(b \div 16)
                  [] b = 240 -> "_system_exclusive"
                  [] b = 241 -> "_time_code_quarter_frame"
                  [] b = 242 -> "_song_position_pointer"
                  [] b = 243 -> "_song_select"
                  [] b = 246 -> "_tune_request"
                  [] b \in RealTimeBytes -> "_real_time"
                  [] OTHER -> "NULL"

(* detect has run on the undefined status byte 0xF4 *)
C24_Witness == api = "MIDIMessageFormatDetect" /\ arg.v = 244 /\ format = "NULL"

(* C24 as stated: every b in 0xF1..0xF7 yields a system-common descriptor. *)
C24_EveryCommonByteDetected ==
  api = "MIDIMessageFormatDetect" =>
    LET b == arg.v
    IN /\ b \in 128..239 => format = ChannelVoice(b \div 16)
       /\ b = 240 => format = "_system_exclusive"
       /\ b \in 241..247 =>
            format \in {"_time_code_quarter_frame", "_song_position_pointer",
                        "_song_select", "_tune_request"}
       /\ b \in RealTimeBytes => format = "_real_time"

(* C25: MIDIMessageFormatForStatus yields a descriptor only for an allowed  *)
(* status: a channel-voice status nibble 0x8..0xE or a system status byte   *)
(* 0xF0..0xFF that detect recognises; for every other value it yields NULL. *)
C25_ForStatusOnlyAllowed ==
  (api = "MIDIMessageFormatForStatus" /\ format # "NULL")
  => \/ arg.v \in MIDI_STATUS_NOTE_OFF..MIDI_STATUS_PITCH_WHEEL_CHANGE
     \/ arg.v \in 240..255 /\ MIDIMessageFormatDetect(arg.v) # "NULL"

(***************************************************************************)
(* Round trips: the buffer holds what encode wrote for source.data, and    *)
(* decode has read the size( source.data ) bytes of it.                    *)
(***************************************************************************)
RoundTrip ==
  /\ api = "MIDIMessageFormatDecode"
  /\ source.valid /\ arg.size = FormatSize(format, source.data)

(* The payload of a SysEx record: the size bytes data points to. *)
Payload(d) == IF d.data.null THEN <<>> ELSE SubSeq(d.data.mem, 1, Min(d.size, Len(d.data.mem)))

(* C21: for every descriptor but the SysEx one and every record m, decoding *)
(* the size(m) bytes encode wrote for m into a fresh record succeeds and    *)
(* yields the header bytes bytes[0..size(m)-1] of m.                        *)
C21_FixedSizeRoundTrip ==
  (RoundTrip /\ format # "_system_exclusive")
  => /\ ret = 0 /\ ~crashed
     /\ \A i \in 1..FormatSize(format, source.data) : message.bytes[i] = source.data.bytes[i]

(* a note record with status, channel, key and velocity set went round *)
C21_Witness ==
  /\ RoundTrip /\ format = "_note_off_on"
  /\ source.data.bytes = <<51, 3, 3, 0>>
  /\ message.bytes = <<51, 3, 3, 0>>

(* C22: for every SysEx record m, first fragment or continuation fragment,  *)
(* decoding what encode wrote for m reproduces m's status, manufacturer id, *)
(* fragment index, payload size and payload bytes.                          *)
C22_SysExRoundTrip ==
  (/\ RoundTrip /\ format = "_system_exclusive"
   /\ source.data.size = Len(source.data.data.mem))
  => /\ ret = 0 /\ ~crashed
     /\ \A i \in 1..3 : message.bytes[i] = source.data.bytes[i]
     /\ message.size = source.data.size
     /\ Payload(message) = Payload(source.data)

(* C23: encode succeeds exactly when the buffer holds at least size(m)      *)
(* bytes; on success it writes exactly the first size(m) bytes of the       *)
(* buffer, on failure none.                                                 *)
C23_EncodeWritesSize ==
  (api = "MIDIMessageFormatEncode" /\ format # "NULL")
  => /\ ret = 0 <=> arg.size >= FormatSize(format, message)
     /\ \A i \in 1..Len(buffer) :
          buffer[i] # Unwritten <=> (ret = 0 /\ i <= FormatSize(format, message))

(* C28: for a SysEx record, after any sequence of decode and set the        *)
(* payload pointer data is non-null exactly when size > 0.                  *)
C28_DataIffSize ==
  (format = "_system_exclusive" /\ ~crashed)
  => (~message.data.null <=> message.size > 0)

(* C29: SysEx decode of n bytes stores an owned payload of n - 2 bytes with *)
(* fragment index 0 and the owning flag set; when n < 2 or the allocation   *)
(* fails it returns an error and leaves the record as it was.               *)
C29_SysExDecode ==
  (api = "MIDIMessageFormatDecode" /\ format = "_system_exclusive")
  => /\ ~crashed
     /\ IF ret = 0
        THEN /\ arg.size >= 2
             /\ message.size = arg.size - 2
             /\ ~message.data.null /\ Len(message.data.mem) = arg.size - 2
             /\ message.bytes[3] = 0 /\ message.bytes[4] = 1
        ELSE message = Fresh

(***************************************************************************)
(* Property access.                                                        *)
(***************************************************************************)
(* The case of the format's setter for the property, if there is one. *)
SetCase(fmt, property) ==
  LET table == FormatSet(fmt)
  IN table[CHOOSE i \in Cases(table, property) : TRUE]

(* A value out of the property's range: a status nibble or a channel above *)
(* 15, a data byte above 127.                                              *)
OutOfRange(fmt, a) ==
  LET c == SetCase(fmt, a.property)
  IN \/ c.macro \in {"SET_H", "SET_L"} /\ a.v > 15
     \/ c.macro = "SET" /\ a.property # "MIDI_STATUS" /\ a.v > 127

(* C26: a set through a descriptor fails and leaves the record unchanged    *)
(* when the property is not meaningful to the variant, when the size of the *)
(* value is not that of the property's type, or when the value is out of    *)
(* range; a get of a property not meaningful to the variant fails and       *)
(* writes nothing to the caller's value.                                    *)
C26_SetGetRefuse ==
  [][/\ (/\ api' = "MIDIMessageFormatSet" /\ format # "NULL"
         /\ \/ Cases(FormatSet(format), arg'.property) = {}
            \/ arg'.size # Sizeof(SetCase(format, arg'.property).type)
            \/ OutOfRange(format, arg'))
        => (ret' # 0 /\ message' = message)
     /\ (/\ api' = "MIDIMessageFormatGet" /\ format # "NULL"
         /\ Cases(FormatGet(format), arg'.property) = {})
        => (ret' # 0 /\ ~value'.written)]_vars

(* a key above 127 was refused on a note record that has a key *)
C26_Witness ==
  /\ api = "MIDIMessageFormatSet" /\ format = "_note_off_on"
  /\ arg.property = "MIDI_KEY" /\ arg.v = 128 /\ arg.size = 1
  /\ ret # 0 /\ message.bytes[2] = 3

(* C27: on pitch wheel and song position records, setting the value v, for  *)
(* every v in 0..16383, stores the low 7 bits of v in byte 1 and the high   *)
(* 7 bits in byte 2 and leaves the status byte alone; getting the value     *)
(* then yields v, and getting value_lsb and value_msb yields the two bytes. *)
C27_LongValue ==
  (format \in LongFormats /\ api \in {"MIDIMessageFormatSet", "MIDIMessageFormatGet"})
  => /\ ret = 0
     /\ message.bytes[1] = LongStatus(format)
     /\ message.bytes[2] = arg.v % 128
     /\ message.bytes[3] = arg.v \div 128
     /\ api = "MIDIMessageFormatGet" =>
          /\ value.written
          /\ value.v = CASE arg.property = "MIDI_VALUE" -> arg.v
                         [] arg.property = "MIDI_VALUE_LSB" -> message.bytes[2]
                         [] arg.property = "MIDI_VALUE_MSB" -> message.bytes[3]

(* the largest value was set on a song position record and read back *)
C27_Witness ==
  /\ format = "_song_position_pointer" /\ api = "MIDIMessageFormatGet"
  /\ arg.property = "MIDI_VALUE" /\ arg.v = MaxLongValue
  /\ value.v = MaxLongValue /\ message.bytes = <<242, 127, 127, 0>>

C38_SetKeepsVariant ==
  [][(/\ api' = "MIDIMessageFormatSet" /\ ret' = 0
      /\ format # "NULL" /\ format' = format
      /\ FormatTest(format, message.bytes[1]))
     => FormatTest(format, message'.bytes[1])]_vars

(* C39: a SysEx record never has the owning flag bytes[3] set while its    *)
(* payload pointer is a block the client has supplied with set, so that no *)
(* later set of MIDI_SYSEX_DATA frees a block of the client.               *)
C39_ClientBlockNotOwned ==
  (format = "_system_exclusive" /\ ~crashed /\ message.data.from = "client")
  => message.bytes[4] # 1

(***************************************************************************)
(* The send tick returns.                                                  *)
(***************************************************************************)
(* C36: every call of MIDIDriverAppleMIDISend returns, whatever the        *)
(* RTP-MIDI session takes of a batch; with an empty out-queue or with no   *)
(* writable socket it returns 0 and has taken no message from the queue.   *)
C36_SendTerminates ==
  api = "Send"
  => /\ route # "spinning"
     /\ route \in {"empty", "unwritable"} => ret = 0 /\ popped = <<>>

(***************************************************************************)
(* The rounds of a clock synchronisation.                                  *)
(***************************************************************************)
(* C37: a synchronisation an engine starts with a peer opens with one CK   *)
(* sent to that peer; an engine that receives a CK of another engine       *)
(* answers its sender with one CK whose count is one higher, twice in an   *)
(* exchange, and the third CK is answered by nothing; a CK with any other  *)
(* count is answered by nothing and the tick returns non-zero.  The        *)
(* opening CK carries count 1.                                             *)
C37_SyncExchange ==
  /\ api = "StartSync"
     => /\ ret = 0 /\ Len(sent) = 1
        /\ IsSync(sent[1].data) /\ sent[1].to = arg
        /\ WireWord(sent[1].data, 1) = session_ssrc
        /\ WireWord(sent[1].data, 2) = 1
  /\ (/\ api = "Receive" /\ route = "command" /\ IsSync(handled.data)
      /\ WireWord(handled.data, 1) # session_ssrc)
     => LET count == WireWord(handled.data, 2)
        IN /\ count \in {1, 2} =>
                /\ ret = 0 /\ Len(sent) = 1
                /\ IsSync(sent[1].data) /\ sent[1].to = handled.from
                /\ WireWord(sent[1].data, 2) = count + 1
           /\ count = 3 => ret = 0 /\ sent = <<>>
           /\ count \notin 1..3 => ret # 0 /\ sent = <<>>

(* C40: MIDIDriverAppleMIDISetRTPSocket with a socket other than the       *)
(* current RTP socket closes the RTP socket used before, neither closes    *)
(* nor clears the control socket, and leaves the new socket for            *)
(* MIDIDriverAppleMIDIGetRTPSocket; the same holds of                      *)
(* MIDIDriverAppleMIDISetControlSocket with the two sockets exchanged.     *)
C40_SetSocketClosesOld ==
  [][/\ (api' = "SetRTPSocket" /\ ret' = 0 /\ arg' # rtp_socket)
        => /\ closed' = {rtp_socket}
           /\ control_socket' = control_socket
           /\ rtp_socket' = arg'
     /\ (api' = "SetControlSocket" /\ ret' = 0 /\ arg' # control_socket)
        => /\ closed' = {control_socket}
           /\ rtp_socket' = rtp_socket
           /\ control_socket' = arg']_vars
C32_LoopbackRelays ==
  (api = "MIDIDriverSend" /\ driver.looped)
  => (ret = 0 /\ driver.relayed = <<arg>>)

(* C33: MIDIControllerReceiveControlChange returns whatever the list of    *)
(* non-registered parameters holds.                                        *)
C33_ControlChangeReturns ==
  api = "MIDIControllerReceiveControlChange" => ~controller.spinning

(* C34: a data entry, increment or decrement received while registered     *)
(* parameter number n is selected changes the stored bytes of no           *)
(* registered parameter but n, and of none when n is not supported.        *)
C34_OnlySelectedParameter ==
  [][(/\ api' = "MIDIControllerReceiveControlChange"
      /\ arg'.control \in DataControls
      /\ controller.current_parameter_registered
      /\ ~controller'.spinning /\ ~crashed')
     => LET n == MIDI_LONG_VALUE(
                   controller.controls[MIDI_CONTROL_REGISTERED_PARAMETER_NUMBER + 1],
                   controller.controls[MIDI_CONTROL_REGISTERED_PARAMETER_NUMBER])
        IN \A j \in 0..5 :
             controller'.registered_parameters[j] # controller.registered_parameters[j]
             => (Supported(n) /\ j \in {2 * n, 2 * n + 1})]_vars

(* C35: once the controller is created, every byte of its controls and of  *)
(* its registered parameters is a 7-bit value.                             *)
C35_SevenBitValues ==
  controller.made
  => /\ \A i \in 0..(N_CONTROLS - 1) : controller.controls[i] \in 0..127
     /\ \A j \in 0..5 : controller.registered_parameters[j] \in 0..127
====
